---- MODULE Spec2Model ----
(***************************************************************************)
(* A model of scraper-kit's orchestration core:                            *)
(*   - PassiveTap (engine/passive_tap.py): the response listener, its two  *)
(*     bounded buffers and the shared timestamp table;                     *)
(*   - strategy_hybrid / _fetch_post_detail_hybrid (engine/hybrid.py): the *)
(*     page loop, the per-candidate detail attempt and its classification; *)
(*   - HealthMonitor (engine/health.py), filter_cards, should_refetch and  *)
(*     the counting helpers (filtering/).                                  *)
(*                                                                         *)
(* Specifications:                                                         *)
(*   SpecTap  the tap alone, driven by start/stop/clear calls and by the   *)
(*            page delivering responses;                                   *)
(*   Spec     one run of strategy_hybrid against a nondeterministic        *)
(*            adapter and page.                                            *)
(***************************************************************************)
EXTENDS Integers, Sequences, FiniteSets, TLC

VARIABLES
    \* ---- PassiveTap (passive_tap.py:40-47) ----
    feed_data,       \* _feed_data: dict note_id -> parsed feed, in insertion order
    comment_data,    \* _comment_data: dict note_id -> list of comments, in insertion order
    timestamps,      \* _timestamps: note_id -> capture time
    listening,       \* _listening
    \* ---- the host page and the clock, as the tap sees them ----
    page_listeners,  \* how many times the tap's _on_response is attached to the page
    clock,           \* time.monotonic(), advanced by every handled response
    \* ---- history variables of the tap (not program state) ----
    tap_op,          \* the last start()/stop() call and whether it called the page
    last_evict,      \* what the last _evict_oldest call removed
    cap_first,       \* note_id -> earliest capture of the data now buffered for it
    cap_last,        \* note_id -> latest capture of the data now buffered for it
    \* ---- strategy_hybrid (hybrid.py:164-445) ----
    pc,              \* where the run is
    cfg,             \* the arguments of the run: max_pages, max_posts, grind, seen_data
    search_url,      \* what adapter.search returned
    page_num,        \* the page loop's index
    fetch_cards,     \* the candidates of the current page left by filter_cards
    idx,             \* the candidate loop's position in fetch_cards (1-based)
    all_posts,       \* the run's output
    session_seen,    \* identities already processed in this run
    empty_pages,     \* consecutive pages without a fetchable candidate
    captcha_mode,    \* CAPTCHA-avoidance mode
    consecutive_captchas,
    consecutive_failures,
    stop_reason,
    events,          \* HealthMonitor._events (the tags, oldest first)
    att,             \* the locals of the detail attempt in progress
    error,           \* the exception propagating out of the run, if any
    \* ---- history variables of the run (not program state) ----
    hist

tapVars == <<feed_data, comment_data, timestamps, listening, page_listeners, clock,
             tap_op, last_evict, cap_first, cap_last>>

runVars == <<pc, cfg, search_url, page_num, fetch_cards, idx, all_posts, session_seen,
             empty_pages, captcha_mode, consecutive_captchas, consecutive_failures,
             stop_reason, events, att, error, hist>>

vars == <<feed_data, comment_data, timestamps, listening, page_listeners, clock,
          tap_op, last_evict, cap_first, cap_last,
          pc, cfg, search_url, page_num, fetch_cards, idx, all_posts, session_seen,
          empty_pages, captcha_mode, consecutive_captchas, consecutive_failures,
          stop_reason, events, att, error, hist>>

----------------------------------------------------------------------------
(* Bounds and program constants *)

\* _MAX_BUFFER_SIZE (passive_tap.py:21) is 100 in the source; the model keeps the
\* comparison `len(buffer) >= _MAX_BUFFER_SIZE` and scales the number so that a
\* full buffer is reachable.
MAX_BUFFER_SIZE == 2

\* The identities the page can deliver responses for: one more than a buffer holds.
NoteIds == {"A", "B", "C"}

\* The clock stops the page delivering responses once it reaches MaxClock.
MaxClock == 6

\* Parsed payloads the adapter's parsers can return. A feed payload carries its
\* own note_id field (which the adapter may or may not fill with the identity
\* extract_note_id_from_api returns), a content field, and a "time": a stamp in
\* milliseconds, or 0 for none.
NoId == ""

\* Time is counted in days since the epoch, so that a stamp in milliseconds
\* (thousandths of a day here) fits an integer; the 86400 of counting.py is 1.
\* time.time() during the calls:
Now == 20000

\* max_age_days of a run
RUN_MAX_AGE_DAYS == 7
FeedPayload(nid_field, content, time) ==
    [note_id |-> nid_field, content |-> content, time |-> time]
TapFeedPayloads(nid) == {FeedPayload(nid, "text", Now * 1000)}
\* A comment is modelled by its "id" field; 0 stands for a comment without id.
TapCommentBatches == {<<1>>}

----------------------------------------------------------------------------
(* Python dicts keep insertion order: a dict is a sequence of <<key, value>>. *)

DictKeys(d) == {d[i][1] : i \in DOMAIN d}

DictHas(d, k) == k \in DictKeys(d)

DictGet(d, k, default) ==
    IF DictHas(d, k) THEN d[CHOOSE i \in DOMAIN d : d[i][1] = k][2] ELSE default

\* d[k] = v: an existing key keeps its place, a new key goes last.
DictSet(d, k, v) ==
    IF DictHas(d, k)
    THEN [i \in DOMAIN d |-> IF d[i][1] = k THEN <<k, v>> ELSE d[i]]
    ELSE Append(d, <<k, v>>)

\* d.pop(k, None)
DictPop(d, k) == SelectSeq(d, LAMBDA p : p[1] # k)

\* timestamps is looked up by key only, so it is a function on its key set.
TsPop(ts, k) == [n \in DOMAIN ts \ {k} |-> ts[n]]

TsSet(ts, k, v) == [n \in DOMAIN ts \cup {k} |-> IF n = k THEN v ELSE ts[n]]

\* dict.setdefault(k, v)
TsSetDefault(ts, k, v) == IF k \in DOMAIN ts THEN ts ELSE TsSet(ts, k, v)

----------------------------------------------------------------------------
(* PassiveTap *)

\* _merge_comments(existing, incoming): append the incoming comments whose id is
\* empty or not yet seen.
RECURSIVE MergeComments(_, _)
MergeComments(existing, incoming) ==
    IF incoming = <<>> THEN existing
    ELSE LET c    == Head(incoming)
             seen == {existing[i] : i \in DOMAIN existing} \ {0}
         IN  IF c # 0 /\ c \in seen
             THEN MergeComments(existing, Tail(incoming))
             ELSE MergeComments(Append(existing, c), Tail(incoming))

\* The key _evict_oldest picks: the first key, in the buffer's order, with the
\* smallest timestamp among the keys that have one; the buffer's first key when
\* none has.
OldestId(data_dict, ts) ==
    LET withTs == {i \in DOMAIN data_dict : data_dict[i][1] \in DOMAIN ts}
    IN  IF withTs = {}
        THEN data_dict[1][1]
        ELSE LET i == CHOOSE i \in withTs :
                        \A j \in withTs :
                            \/ ts[data_dict[i][1]] < ts[data_dict[j][1]]
                            \/ (ts[data_dict[i][1]] = ts[data_dict[j][1]] /\ i <= j)
             IN  data_dict[i][1]

\* _evict_oldest(data_dict): the buffer and the timestamp table afterwards.
EvictOldest(data_dict, ts) ==
    IF data_dict = <<>>
    THEN [data |-> data_dict, ts |-> ts]
    ELSE LET oldest_id == OldestId(data_dict, ts)
         IN  [data |-> DictPop(data_dict, oldest_id), ts |-> TsPop(ts, oldest_id)]

\* (mutant) the size test off by one: evict only when the buffer is over the limit.
BufferFullOffByOne(data_dict) == Len(data_dict) > MAX_BUFFER_SIZE

\* Whether an insertion into the buffer first evicts.
BufferFull(data_dict) == Len(data_dict) >= MAX_BUFFER_SIZE

\* History: identities that still hold data in either buffer.
Held(fd, cd) == DictKeys(fd) \cup DictKeys(cd)

\* History: the record of one eviction from `before`, leaving `after`.
\* older_left says that an entry left in the buffer has all of its data captured
\* before any data of an evicted entry was.
EvictRecord(buffer, before, after) ==
    LET gone == DictKeys(before) \ DictKeys(after)
    IN  [buffer |-> buffer,
         evicted |-> gone,
         older_left |-> \E e \in gone : \E x \in DictKeys(after) :
                            cap_last[x] < cap_first[e]]

NoEvict == [buffer |-> "none", evicted |-> {}, older_left |-> FALSE]

\* History: the capture interval of every identity that holds data after a
\* response for nid was stored at time now.
CapFirstAfter(fd, cd, nid, now) ==
    [n \in Held(fd, cd) |->
        IF n \in DOMAIN cap_first /\ n \in Held(feed_data, comment_data)
        THEN cap_first[n] ELSE now]

CapLastAfter(fd, cd, nid, now) ==
    [n \in Held(fd, cd) |->
        IF n = nid \/ n \notin DOMAIN cap_last THEN now ELSE cap_last[n]]

\* _handle_response, from `now = time.monotonic()` on, for a feed response.
StoreFeed(nid, parsed) ==
    LET now == clock + 1
        ev  == IF BufferFull(feed_data)
               THEN EvictOldest(feed_data, timestamps)
               ELSE [data |-> feed_data, ts |-> timestamps]
        fd  == DictSet(ev.data, nid, parsed)
    IN  /\ feed_data' = fd
        /\ timestamps' = TsSet(ev.ts, nid, now)
        /\ comment_data' = comment_data
        /\ clock' = now
        /\ last_evict' = IF BufferFull(feed_data)
                         THEN EvictRecord("feed", feed_data, ev.data)
                         ELSE NoEvict
        /\ cap_first' = CapFirstAfter(fd, comment_data, nid, now)
        /\ cap_last' = CapLastAfter(fd, comment_data, nid, now)

\* _handle_response, from `now = time.monotonic()` on, for a comments response.
StoreComments(nid, parsed) ==
    LET now == clock + 1
        ev  == IF BufferFull(comment_data)
               THEN EvictOldest(comment_data, timestamps)
               ELSE [data |-> comment_data, ts |-> timestamps]
        existing == DictGet(ev.data, nid, <<>>)
        cd  == DictSet(ev.data, nid, MergeComments(existing, parsed))
    IN  /\ comment_data' = cd
        /\ timestamps' = TsSetDefault(ev.ts, nid, now)
        /\ feed_data' = feed_data
        /\ clock' = now
        /\ last_evict' = IF BufferFull(comment_data)
                         THEN EvictRecord("comments", comment_data, ev.data)
                         ELSE NoEvict
        /\ cap_first' = CapFirstAfter(feed_data, cd, nid, now)
        /\ cap_last' = CapLastAfter(feed_data, cd, nid, now)

\* (mutant) clear() that pops the comments but leaves the feed and its timestamp.
ClearKeepsFeed(nid) ==
    /\ feed_data' = feed_data
    /\ comment_data' = DictPop(comment_data, nid)
    /\ timestamps' = timestamps
    /\ cap_first' = [n \in DOMAIN cap_first \ ({nid} \ DictKeys(feed_data)) |-> cap_first[n]]
    /\ cap_last' = [n \in DOMAIN cap_last \ ({nid} \ DictKeys(feed_data)) |-> cap_last[n]]

\* clear(note_id)
Clear(nid) ==
    /\ feed_data' = DictPop(feed_data, nid)
    /\ comment_data' = DictPop(comment_data, nid)
    /\ timestamps' = TsPop(timestamps, nid)
    /\ cap_first' = [n \in DOMAIN cap_first \ {nid} |-> cap_first[n]]
    /\ cap_last' = [n \in DOMAIN cap_last \ {nid} |-> cap_last[n]]

\* get_feed(note_id): the payload, or None.
None == [none |-> TRUE]
GetFeed(nid) == DictGet(feed_data, nid, None)

\* get_comments(note_id)
GetComments(nid) == DictGet(comment_data, nid, <<>>)

\* (mutant) start() without the `if self._listening: return` guard.
StartUnguarded ==
    /\ page_listeners' = page_listeners + 1
    /\ listening' = TRUE
    /\ tap_op' = [op |-> "start", was_listening |-> listening, page_called |-> TRUE]

\* start(): page.on("response", ...) unless already listening.
Start ==
    IF listening
    THEN /\ UNCHANGED <<listening, page_listeners>>
         /\ tap_op' = [op |-> "start", was_listening |-> TRUE, page_called |-> FALSE]
    ELSE /\ page_listeners' = page_listeners + 1
         /\ listening' = TRUE
         /\ tap_op' = [op |-> "start", was_listening |-> FALSE, page_called |-> TRUE]

\* stop(): page.remove_listener("response", ...) unless not listening. The page
\* is an event emitter: remove_listener detaches one registration of the
\* handler and raises when there is none, which stop() swallows.
Stop ==
    IF ~listening
    THEN /\ UNCHANGED <<listening, page_listeners>>
         /\ tap_op' = [op |-> "stop", was_listening |-> FALSE, page_called |-> FALSE]
    ELSE /\ page_listeners' = IF page_listeners > 0 THEN page_listeners - 1 ELSE 0
         /\ listening' = FALSE
         /\ tap_op' = [op |-> "stop", was_listening |-> TRUE, page_called |-> TRUE]

----------------------------------------------------------------------------
(* The tap right after PassiveTap(page, adapter) *)

InitTapState ==
    /\ feed_data = <<>>
    /\ comment_data = <<>>
    /\ timestamps = <<>>
    /\ listening = FALSE
    /\ page_listeners = 0
    /\ clock = 0
    /\ tap_op = [op |-> "none", was_listening |-> FALSE, page_called |-> FALSE]
    /\ last_evict = NoEvict
    /\ cap_first = <<>>
    /\ cap_last = <<>>

----------------------------------------------------------------------------
(* HealthMonitor (engine/health.py). Weights are kept in tenths; the score's
   binary floating point arithmetic is kept as the rounding error of each double. *)

\* HealthMonitor(window=20): strategy_hybrid builds it with the default window.
HEALTH_WINDOW == 20

\* _WEIGHTS, times ten; an unknown tag weighs 0.
Weight10(ev) ==
    CASE ev = "ok" -> 10
      [] ev = "captcha" -> -5
      [] ev = "timeout" -> -3
      [] ev = "empty" -> -1
      [] ev = "auth_expired" -> -10
      [] OTHER -> 0

\* A double d near the tenths grid is the pair [q, e] with
\* d = (q * 2^56 + e) / (10 * 2^56): q tenths plus an error of e units of 2^-56 / 10.
\* The literals of _WEIGHTS: -0.3 is the double -0.3 + 0.2 * 2^-54, -0.1 is the
\* double -0.1 - 0.4 * 2^-56; 1.0, -0.5, -1.0 and 0.0 are exact.
WeightErr(ev) ==
    CASE ev = "timeout" -> 8
      [] ev = "empty" -> -4
      [] OTHER -> 0

\* 2^k mod 10, k >= 1
Pow2Mod10(k) == CASE k % 4 = 0 -> 6 [] k % 4 = 1 -> 2 [] k % 4 = 2 -> 4 [] OTHER -> 8

\* The binary exponent E of a real of magnitude a tenths, s units above them,
\* between 0.2 and 64: 2^E <= it < 2^(E+1).
ExponentOf(a, s) ==
    IF a > 320 \/ (a = 320 /\ s >= 0) THEN 5
    ELSE IF a > 160 \/ (a = 160 /\ s >= 0) THEN 4
    ELSE IF a > 80 \/ (a = 80 /\ s >= 0) THEN 3
    ELSE IF a > 40 \/ (a = 40 /\ s >= 0) THEN 2
    ELSE IF a > 20 \/ (a = 20 /\ s >= 0) THEN 1
    ELSE IF a > 10 \/ (a = 10 /\ s >= 0) THEN 0
    ELSE IF a > 5 \/ (a = 5 /\ s >= 0) THEN -1
    ELSE IF a >= 3 THEN -2
    ELSE -3

\* The binary exponent of the real (q * 2^56 + e) / (10 * 2^56)
Exponent(q, e) == ExponentOf(IF q < 0 THEN -q ELSE q, IF q < 0 THEN -e ELSE e)

\* [q, e] moved to a multiple of G units: rem is its remainder by G and rem2 its
\* remainder by 2 * G (a tie goes to the even multiple).
RoundBy(q, e, G, rem, rem2) ==
    IF 2 * rem < G \/ (2 * rem = G /\ rem2 < G)
    THEN [q |-> q, e |-> e - rem]
    ELSE [q |-> q, e |-> e + G - rem]

\* Round to nearest double of exponent E: these are the multiples of 2^(E-52),
\* that is of 10 * 2^(E+4) units.
RoundTo(q, e, E) ==
    RoundBy(q, e, 10 * 2^(E + 4),
            (2^(E + 4) * ((q * Pow2Mod10(52 - E)) % 10) + e) % (10 * 2^(E + 4)),
            (2^(E + 5) * ((q * Pow2Mod10(51 - E)) % 10) + e) % (10 * 2^(E + 5)))

\* Round to nearest double, ties to even. Below 0.125 every multiple of 2^-56 is a
\* double, and sums of doubles of this model are such multiples.
RoundDouble(q, e) ==
    IF q \in {-1, 0, 1} THEN [q |-> q, e |-> e]
    ELSE CHOOSE d \in {RoundTo(q, e, E) : E \in {Exponent(q, e)}} : TRUE

\* x + y in double arithmetic
AddDouble(x, y) ==
    CHOOSE d \in {RoundDouble(q, e) : q \in {x.q + y.q}, e \in {x.e + y.e}} : TRUE

\* A full window refuses the new event.
HealthRecordKeepsOldest(evs, ev, window) ==
    IF Len(evs) >= window THEN evs ELSE Append(evs, ev)

\* record(event): deque(maxlen=window).append
HealthRecordW(evs, ev, window) ==
    IF Len(evs) >= window THEN Append(Tail(evs), ev) ELSE Append(evs, ev)

HealthRecord(evs, ev) == HealthRecordW(evs, ev, HEALTH_WINDOW)

\* recency of position i (1-based here, 0-based in the source): 2 from the midpoint on.
Recency(evs, i) == IF i - 1 >= Len(evs) \div 2 THEN 2 ELSE 1

\* total_weight of score after the first i events: total_weight += w * recency,
\* in the order of the window (w * 2.0 is exact). The running total is bound
\* as a value before the next addition uses it.
RECURSIVE WeightUpTo(_, _)
WeightUpTo(evs, i) ==
    IF i = 0 THEN [q |-> 0, e |-> 0]
    ELSE CHOOSE sum \in {AddDouble(total_weight, w) :
                            total_weight \in {WeightUpTo(evs, i - 1)},
                            w \in {[q |-> Weight10(evs[i]) * Recency(evs, i),
                                     e |-> WeightErr(evs[i]) * Recency(evs, i)]}} : TRUE

\* total_possible of score, times ten, summed from position i on (small integers:
\* exact in doubles).
RECURSIVE PossibleFrom(_, _)
PossibleFrom(evs, i) ==
    IF i > Len(evs) THEN 0
    ELSE 10 * Recency(evs, i) + PossibleFrom(evs, i + 1)

TotalWeight(evs) == WeightUpTo(evs, Len(evs))
TotalPossible10(evs) == PossibleFrom(evs, 1)

\* A score is [q, e, b]: the quotient of the double [q, e] by the integer b, before
\* the division rounds it.
ScoreOne == [q |-> 10, e |-> 0, b |-> 1]

\* max(0.0, min(1.0, raw)) for raw = sum / b
Clamp(sum, b) ==
    IF sum.q < 0 \/ (sum.q = 0 /\ sum.e < 0) THEN [q |-> 0, e |-> 0, b |-> b]
    ELSE IF sum.q > 10 * b \/ (sum.q = 10 * b /\ sum.e > 0) THEN [q |-> 10 * b, e |-> 0, b |-> b]
    ELSE [q |-> sum.q, e |-> sum.e, b |-> b]

\* raw = (total_weight + total_possible) / (2 * total_possible), clamped, for
\* total_possible = possible10 / 10
ScoreOf(total_weight, possible10) ==
    CHOOSE s \in {Clamp(sum, 2 * (possible10 \div 10)) :
                    sum \in {AddDouble(total_weight, [q |-> possible10, e |-> 0])}} : TRUE

\* The score is 0.0 when the window is empty.
ScoreEmptyIsZero(evs) ==
    IF evs = <<>> THEN [q |-> 0, e |-> 0, b |-> 1]
    ELSE CHOOSE s \in {ScoreOf(total_weight, possible10) :
                         total_weight \in {TotalWeight(evs)},
                         possible10 \in {TotalPossible10(evs)}} : TRUE

\* score: 1.0 on an empty window, else
\* max(0.0, min(1.0, (total_weight + total_possible) / (2 * total_possible)))
Score(evs) ==
    IF evs = <<>> THEN ScoreOne
    ELSE CHOOSE s \in {ScoreOf(total_weight, possible10) :
                         total_weight \in {TotalWeight(evs)},
                         possible10 \in {TotalPossible10(evs)}} : TRUE

\* The literals 0.3 and 0.6 are the doubles 0.3 - 0.2 * 2^-54 and 0.6 - 0.4 * 2^-54,
\* both of odd mantissa: a quotient rounds below the literal exactly when it is at
\* most the midpoint to the double before it, 0.3 - 0.7 * 2^-54 (28 units) and
\* 0.6 - 1.4 * 2^-54 (56 units).
LiteralGap(tenths) == CASE tenths = 3 -> 28 [] tenths = 6 -> 56

\* The score s is below the literal of tenths/10.
BelowLiteral(s, tenths) ==
    IF s.q # tenths * s.b THEN s.q < tenths * s.b
    ELSE s.e <= -(LiteralGap(tenths) * s.b)

\* score < 0.3 (tenths = 3), score < 0.6 (tenths = 6)
ScoreBelow(evs, tenths) == \E s \in {Score(evs)} : BelowLiteral(s, tenths)

CountEvent(evs, ev) == Cardinality({i \in DOMAIN evs : evs[i] = ev})

\* (mutant) should_stop without the score
ShouldStopAuthOnly(evs) == CountEvent(evs, "auth_expired") >= 3

\* should_stop without the count of auth_expired
ShouldStopScoreOnly(evs) == ScoreBelow(evs, 3)

\* should_stop: 3 or more auth_expired in the window, or score < 0.3
ShouldStop(evs) == CountEvent(evs, "auth_expired") >= 3 \/ ScoreBelow(evs, 3)

\* should_backoff: score < 0.6
ShouldBackoff(evs) == ScoreBelow(evs, 6)

----------------------------------------------------------------------------
(* filtering/seen_set.py, card_filter.py, counting.py *)

\* A candidate as adapter.extract_cards returns it: its identity ("" when the
\* card has none), the likes parse_engagement reads from it, and whether the
\* adapter itself marked it _skip_detail.
Card(nid, likes, skip) ==
    [note_id |-> nid, likes |-> likes, skip_detail |-> skip, trending |-> FALSE]

\* should_refetch's defaults (seen_set.py:93-94)
LIKES_MULTIPLIER == 2
LIKES_ABS_THRESHOLD == 50

\* should_refetch with the multiplier test alone.
ShouldRefetchNoAbs(card, seen) ==
    IF card.note_id \notin DOMAIN seen THEN <<TRUE, FALSE>>
    ELSE LET old_likes == seen[card.note_id]
             new_likes == card.likes
         IN  IF old_likes = 0 THEN <<FALSE, FALSE>>
             ELSE IF new_likes >= old_likes * LIKES_MULTIPLIER
                  THEN <<TRUE, TRUE>>
                  ELSE <<FALSE, FALSE>>

\* should_refetch(card, seen_data, parse_engagement) -> <<should_fetch, is_trending>>.
\* seen_data maps an identity to its stored likes.
ShouldRefetch(card, seen) ==
    IF card.note_id \notin DOMAIN seen THEN <<TRUE, FALSE>>
    ELSE LET old_likes == seen[card.note_id]
             new_likes == card.likes
         IN  IF old_likes = 0 THEN <<FALSE, FALSE>>
             ELSE IF \/ new_likes >= old_likes * LIKES_MULTIPLIER
                     \/ new_likes - old_likes >= LIKES_ABS_THRESHOLD
                  THEN <<TRUE, TRUE>>
                  ELSE <<FALSE, FALSE>>

\* seen_data = None is modelled by NoSeen.
NoSeen == [none |-> TRUE]

\* The loop of filter_cards does not look at session_seen.
FilterStepIgnoresSession(c, seen, st) ==
    LET nid == c.note_id
    IN  IF nid = "" THEN st
        ELSE IF seen # NoSeen
             THEN LET r == ShouldRefetch(c, seen)
                      c2 == [c EXCEPT !.trending = r[2]]
                  IN  IF ~r[1]
                      THEN [st EXCEPT !.session_seen = @ \cup {nid},
                                      !.skipped = Append(@, [c2 EXCEPT !.skip_detail = TRUE]),
                                      !.n_skipped = @ + 1]
                      ELSE [st EXCEPT !.fetch = Append(@, c2)]
             ELSE [st EXCEPT !.fetch = Append(@, c)]

\* One iteration of the loop of filter_cards, on candidate c; st holds fetch_cards,
\* skipped_cards, n_skipped and session_seen.
FilterStep(c, seen, st) ==
    LET nid == c.note_id
    IN  IF nid = "" \/ nid \in st.session_seen THEN st
        ELSE IF seen # NoSeen
             THEN LET r == ShouldRefetch(c, seen)
                      c2 == [c EXCEPT !.trending = r[2]]
                  IN  IF ~r[1]
                      THEN [st EXCEPT !.session_seen = @ \cup {nid},
                                      !.skipped = Append(@, [c2 EXCEPT !.skip_detail = TRUE]),
                                      !.n_skipped = @ + 1]
                      ELSE [st EXCEPT !.fetch = Append(@, c2)]
             ELSE [st EXCEPT !.fetch = Append(@, c)]

\* filter_cards before its loop: empty lists, and the caller's session_seen.
FilterStart(sess) ==
    [fetch |-> <<>>, skipped |-> <<>>, n_skipped |-> 0, session_seen |-> sess]

\* The loop of filter_cards from card i on.
RECURSIVE FilterFrom(_, _, _, _)
FilterFrom(cards, i, seen, st) ==
    IF i > Len(cards) THEN st
    ELSE FilterFrom(cards, i + 1, seen, FilterStep(cards[i], seen, st))

\* filter_cards(card_infos, session_seen, seen_data, parse_engagement): fetch_cards,
\* skipped_cards, n_skipped, and session_seen as the loop leaves it.
FilterCards(cards, sess, seen) == FilterFrom(cards, 1, seen, FilterStart(sess))

\* SKIP_REASONS
SKIP_REASONS == {"seen", "skipped"}

\* fetch_count(posts): posts that are not card-only with a skip reason.
FetchCount(posts) ==
    Cardinality({i \in DOMAIN posts :
                    ~(posts[i].card_only /\ posts[i].reason \in SKIP_REASONS)})

\* 1e12, in thousandths of a day: for a whole ts, ts > 1e12 exactly when
\* ts > 11574074 thousandths of a day.
MS_THRESHOLD == 11574074

\* grind_count without the conversion of milliseconds
InGrindWindowNoMs(ts, max_age_days) ==
    LET cutoff == Now - max_age_days
    IN  ts <= 0 \/ ts >= cutoff

\* grind_count, for one post of "time" ts (0 when absent):
\*   if ts > 1e12: ts = ts / 1000
\*   ts <= 0 or ts >= cutoff
\* (ts / 1000 >= cutoff exactly when ts >= 1000 * cutoff; ts / 1000 > 0)
InGrindWindow(ts, max_age_days) ==
    LET cutoff == Now - max_age_days
    IN  IF ts > MS_THRESHOLD THEN ts >= 1000 * cutoff
        ELSE ts <= 0 \/ ts >= cutoff

\* grind_count(posts, max_age_days)
GrindCount(posts, max_age_days) ==
    Cardinality({i \in DOMAIN posts :
                    ~posts[i].card_only /\ InGrindWindow(posts[i].time, max_age_days)})

\* count_for_limit(posts, grind, max_age_days)
CountForLimit(posts, grind, max_age_days) ==
    IF grind THEN GrindCount(posts, max_age_days) ELSE FetchCount(posts)

----------------------------------------------------------------------------
(* hybrid.py: the records *)

\* A Record. data_source "none" and reason "none" stand for an absent key;
\* for_card and tap are history: the candidate the Record was built for, and
\* whether tap data was merged into it ("none") and, if so, whether all of it
\* was captured after the attempt cleared the tap ("fresh") or not ("stale").
Post(nid, content, source, card_only, reason, time, card, tap) ==
    [note_id |-> nid, content |-> content, data_source |-> source,
     card_only |-> card_only, reason |-> reason, time |-> time, trending |-> FALSE,
     for_card |-> card.note_id, tap |-> tap]

\* build_post_from_card(card, adapter), then card_only = True and a reason.
CardOnlyPost(card, reason) ==
    Post(card.note_id, "", "none", TRUE, reason, 0, card, "none")

\* The merge of _fetch_post_detail_hybrid (hybrid.py:103-140): the tap feed
\* wins when there is one, else the Record is built from the document extraction.
\* (mutant) the merge without its `if feed:` branch: always the document fallback.
MergePostIgnoresFeed(card, feed, api_comments, dom_content, detail_loaded, tap) ==
    Post(card.note_id, dom_content, "dom_fallback",
         dom_content = "",
         IF dom_content = "" THEN (IF detail_loaded THEN "empty_content" ELSE "modal_timeout")
         ELSE "none",
         0, card, IF api_comments # <<>> THEN tap ELSE "none")

MergePost(card, feed, api_comments, dom_content, detail_loaded, tap) ==
    IF feed # None
    THEN Post(feed.note_id,
              IF feed.content = "" THEN dom_content ELSE feed.content,
              "passive_api", FALSE, "none", feed.time, card, tap)
    ELSE Post(card.note_id, dom_content, "dom_fallback",
              dom_content = "",
              IF dom_content = "" THEN (IF detail_loaded THEN "empty_content" ELSE "modal_timeout")
              ELSE "none",
              0, card, IF api_comments # <<>> THEN tap ELSE "none")

----------------------------------------------------------------------------
(* hybrid.py: bounds of one run *)

\* The identities the page delivers responses for during a run: candidate A
\* gets tap data, candidate B never does.
RunTapIds == {"A"}

\* The page delivers at most MaxRunClock responses during one run.
MaxRunClock == 2

\* The run's arguments: max_pages, max_posts (0 = unlimited), grind, and
\* seen_data (None, or a history that knows A with 10 likes). grind only
\* triples the page budget and changes how Records count toward max_posts, so
\* a grind run is given a budget of one page and an item limit.
PageBudgets == {1, 2}
ItemLimits == {0, 1}
SeenChoices == {NoSeen, [n \in {"A"} |-> 10]}
Configs ==
    { c \in [max_pages : PageBudgets, max_posts : ItemLimits, grind : BOOLEAN,
             seen_data : SeenChoices] : c.grind => (c.max_pages = 1 /\ c.max_posts > 0) }

\* What adapter.extract_cards can return for a page.
ListingAB == <<Card("A", 10, FALSE), Card("B", 5, FALSE)>>
Listings ==
    { <<>>,
      ListingAB,
      <<Card("A", 20, FALSE)>>,
      <<Card("B", 5, TRUE), Card("", 0, FALSE)>> }

\* Feed payloads the page can deliver for nid during a run: complete, without
\* the identity field, and without content and older than the grind window.
RunFeedPayloads(nid) ==
    { FeedPayload(nid, "text", Now * 1000),
      FeedPayload(NoId, "text", Now * 1000),
      FeedPayload(nid, "", (Now - RUN_MAX_AGE_DAYS - 1) * 1000) }
RunCommentBatches == {<<1>>}

\* What a raising adapter or page call raises: `"Timeout" in str(e)` or not.
Raises == {"Timeout", "Error"}

----------------------------------------------------------------------------
(* hybrid.py: the state of a run *)

NoCard == Card("", 0, FALSE)
NoPost == [none |-> TRUE]

\* The locals of _fetch_post_detail_hybrid and what it returns (post,
\* is_captcha). slept says whether a human_sleep has run since the attempt
\* began. History: start is the clock when the attempt cleared the tap, tap
\* whether the tap data read was all captured after that, opened whether
\* open_detail returned True, and calls which of wait_for_detail ("wait"),
\* the extraction calls ("extract") and close_detail ("close") were made.
NoAtt ==
    [card |-> NoCard, captcha |-> FALSE, detail_loaded |-> FALSE, feed |-> None,
     api_comments |-> <<>>, exc |-> "none", post |-> NoPost, is_captcha |-> FALSE,
     slept |-> FALSE, start |-> 0, tap |-> "none", opened |-> FALSE, calls |-> {}]

NoHist ==
    [detach_calls |-> 0,        \* page.remove_listener calls made by the run
     escaped |-> "none",        \* where the propagating exception was raised
     both_at_check |-> FALSE,   \* a candidate check found should_stop and the limit reached
     limit_hit |-> FALSE,       \* a candidate check found the limit reached
     after_limit |-> "none",    \* what the run did after limit_hit: extract, scroll, attempt
     first_listing |-> <<>>,    \* what extract_cards returned for the first page
     feed_A |-> "none",         \* a feed for A was delivered: "during" A's attempt, or only "outside"
     stale_cleared |-> FALSE,   \* an attempt began by clearing data the tap held for its candidate
     nominal |-> TRUE,          \* no call raised, every detail view opened, no CAPTCHA persisted
     extracts |-> 0,            \* listing pages extract_cards returned
     stops |-> {},              \* the stop conditions that fired (assignments to stop_reason)
     recovered |-> FALSE,       \* the last classification re-navigated to the listing URL
     yields |-> <<>>,           \* per extracted page, the number of candidates to fetch
     scrolls |-> 0]             \* the times the listing was scrolled for a next page

\* (mutant) the page budget tripled whether or not the run grinds
MaxPagesTripled == cfg.max_pages * 3

\* max_pages after `if grind: max_pages = max_pages * 3`
MaxPagesEff == IF cfg.grind THEN cfg.max_pages * 3 ELSE cfg.max_pages

InitRunState(c) ==
    /\ pc = "start"
    /\ cfg = c
    /\ search_url = FALSE
    /\ page_num = 0
    /\ fetch_cards = <<>>
    /\ idx = 0
    /\ all_posts = <<>>
    /\ session_seen = {}
    /\ empty_pages = 0
    /\ captcha_mode = FALSE
    /\ consecutive_captchas = 0
    /\ consecutive_failures = 0
    /\ stop_reason = "max_pages"
    /\ events = <<>>
    /\ att = NoAtt
    /\ error = "none"
    /\ hist = NoHist

\* The exception propagates out of the loop body to the finally block.
RaiseOut(where) ==
    /\ pc' = "finally"
    /\ error' = "raised"
    /\ hist' = [hist EXCEPT !.escaped = where]

----------------------------------------------------------------------------
(* strategy_hybrid: setup and the page loop *)

\* hybrid.py:176-209: tap.start(), then inside the try adapter.search and
\* adapter.apply_filters, either of which may raise. adapter.search returns the
\* listing URL (adapter.py:24-26), so search_url is set once it has returned.
StartRun ==
    /\ pc = "start"
    /\ Start
    /\ \E r \in {"url", "raise"} :
        IF r = "raise"
        THEN RaiseOut("search") /\ UNCHANGED search_url
        ELSE /\ search_url' = TRUE
             /\ pc' = "page"
             /\ UNCHANGED <<error, hist>>
    /\ UNCHANGED <<feed_data, comment_data, timestamps, clock, last_evict, cap_first,
                   cap_last, cfg, page_num, fetch_cards, idx, all_posts, session_seen,
                   empty_pages, captcha_mode, consecutive_captchas,
                   consecutive_failures, stop_reason, events, att>>

\* hybrid.py:211: range(max_pages) is exhausted.
PagesExhausted ==
    /\ pc = "page"
    /\ page_num >= MaxPagesEff
    /\ pc' = "finally"
    /\ UNCHANGED <<tapVars, cfg, search_url, page_num, fetch_cards, idx, all_posts,
                   session_seen, empty_pages, captcha_mode, consecutive_captchas,
                   consecutive_failures, stop_reason, events, att, error, hist>>

\* hybrid.py:212-216: the health check at the top of a page.
HealthStopAtPage ==
    /\ pc = "page"
    /\ page_num < MaxPagesEff
    /\ ShouldStop(events)
    /\ stop_reason' = "health_stop"
    /\ pc' = "finally"
    /\ hist' = [hist EXCEPT !.stops = @ \cup {"health_stop"}]
    /\ UNCHANGED <<tapVars, cfg, search_url, page_num, fetch_cards, idx, all_posts,
                   session_seen, empty_pages, captcha_mode, consecutive_captchas,
                   consecutive_failures, events, att, error>>

\* hybrid.py:230-234: the skipped (seen) cards become card-only Records.
RECURSIVE SeenPosts(_, _)
SeenPosts(skipped, i) ==
    IF i > Len(skipped) THEN <<>>
    ELSE <<CardOnlyPost(skipped[i], "seen")>> \o SeenPosts(skipped, i + 1)

\* hybrid.py:413-418 (and 241-245): scroll when another page is left; the loop
\* then moves to the next page.
NextPage(h) ==
    /\ page_num' = page_num + 1
    /\ pc' = "page"
    /\ hist' = IF page_num < MaxPagesEff - 1
               THEN [h EXCEPT !.scrolls = @ + 1,
                              !.after_limit = IF h.limit_hit /\ @ = "none"
                                              THEN "scroll" ELSE @]
               ELSE h

\* hybrid.py:218: adapter.extract_cards raises.
ExtractCardsRaises ==
    /\ pc = "page"
    /\ page_num < MaxPagesEff
    /\ ~ShouldStop(events)
    /\ RaiseOut("extract_cards")
    /\ UNCHANGED <<tapVars, cfg, search_url, page_num, fetch_cards, idx, all_posts,
                   session_seen, empty_pages, captcha_mode, consecutive_captchas,
                   consecutive_failures, stop_reason, events, att>>

\* (mutant) the run gives up at the first page without candidates
EmptyPagesStopAtOnce(n) == n >= 1

\* hybrid.py:238: `if empty_pages >= 2`
EmptyPagesStop(n) == n >= 2

\* hybrid.py:218-248: extract_cards, filter_cards, the seen Records, and the
\* empty-page count.
ExtractCardsOf(listings) ==
    /\ pc = "page"
    /\ page_num < MaxPagesEff
    /\ ~ShouldStop(events)
    /\ \E listing \in listings :
        LET f == FilterCards(listing, session_seen, cfg.seen_data)
            h == [hist EXCEPT
                    !.first_listing = IF page_num = 0 THEN listing ELSE @,
                    !.extracts = @ + 1,
                    !.yields = Append(@, Len(f.fetch)),
                    !.after_limit = IF hist.limit_hit /\ @ \in {"none", "scroll"}
                                    THEN "extract" ELSE @]
        IN  /\ session_seen' = f.session_seen
            /\ all_posts' = all_posts \o SeenPosts(f.skipped, 1)
            /\ IF f.fetch = <<>>
               THEN /\ empty_pages' = empty_pages + 1
                    /\ UNCHANGED <<fetch_cards, idx>>
                    /\ IF EmptyPagesStop(empty_pages + 1)
                       THEN /\ stop_reason' = "empty_pages"
                            /\ pc' = "finally"
                            /\ hist' = [h EXCEPT !.stops = @ \cup {"empty_pages"}]
                            /\ UNCHANGED page_num
                       ELSE /\ NextPage(h)
                            /\ UNCHANGED stop_reason
               ELSE /\ empty_pages' = 0
                    /\ fetch_cards' = f.fetch
                    /\ idx' = 1
                    /\ pc' = "cand"
                    /\ hist' = h
                    /\ UNCHANGED <<page_num, stop_reason>>
    /\ UNCHANGED <<tapVars, cfg, search_url, captcha_mode, consecutive_captchas,
                   consecutive_failures, events, att, error>>

ExtractCards == ExtractCardsOf(Listings)

----------------------------------------------------------------------------
(* strategy_hybrid: the candidate loop *)

CurCard == fetch_cards[idx]

\* (mutant) the check runs from 4 consecutive failures on
AuthCheckDueAtFour(failures) == failures >= 4

\* hybrid.py:349: `if consecutive_failures >= 5`
AuthCheckDue(failures) == failures >= 5

\* hybrid.py:349-379, for the Record `post` of the current candidate and the
\* counters and health window as the classification left them: the
\* 5-consecutive-failures check (has_auth_evidence may raise), the append and
\* the session set; then the loop moves to the next candidate. nav says
\* whether the classification re-navigated to the listing (history).
FinishCandidate(post, cc, cf, cm, evs, nav) ==
    \E auth \in (IF AuthCheckDue(cf) THEN {"yes", "no", "raise"} ELSE {"unasked"}) :
        /\ consecutive_captchas' = cc
        /\ consecutive_failures' = cf
        /\ captcha_mode' = cm
        /\ att' = NoAtt
        /\ UNCHANGED <<cfg, search_url, page_num, fetch_cards, empty_pages, stop_reason>>
        /\ IF auth = "raise"
           THEN /\ events' = evs
                /\ RaiseOut("has_auth_evidence")
                /\ UNCHANGED <<all_posts, session_seen, idx>>
           ELSE /\ events' = CASE auth = "yes" -> HealthRecord(evs, "auth_expired")
                               [] auth = "no" -> HealthRecord(evs, "empty")
                               [] OTHER -> evs
                /\ all_posts' = Append(all_posts, [post EXCEPT !.trending = CurCard.trending])
                /\ session_seen' = IF post.note_id # NoId
                                   THEN session_seen \cup {post.note_id}
                                   ELSE session_seen
                /\ idx' = idx + 1
                /\ pc' = "cand"
                /\ hist' = [hist EXCEPT !.recovered = nav]
                /\ UNCHANGED error

\* hybrid.py:249: the candidates of the page are exhausted.
CandidatesDone ==
    /\ pc = "cand"
    /\ idx > Len(fetch_cards)
    /\ NextPage(hist)
    /\ UNCHANGED <<tapVars, cfg, search_url, fetch_cards, idx, all_posts, session_seen,
                   empty_pages, captcha_mode, consecutive_captchas,
                   consecutive_failures, stop_reason, events, att, error>>

\* (mutant) the limit test with > for >=
LimitReachedAbove ==
    cfg.max_posts > 0 /\ CountForLimit(all_posts, cfg.grind, RUN_MAX_AGE_DAYS) > cfg.max_posts

\* hybrid.py:250: `if max_posts > 0 and count_for_limit(...) >= max_posts`
LimitReached ==
    cfg.max_posts > 0 /\ CountForLimit(all_posts, cfg.grind, RUN_MAX_AGE_DAYS) >= cfg.max_posts

\* hybrid.py:250-254: the item limit is reached; `break` leaves the candidate loop.
LimitBreak ==
    /\ pc = "cand"
    /\ idx <= Len(fetch_cards)
    /\ LimitReached
    /\ stop_reason' = "max_posts"
    /\ NextPage([hist EXCEPT !.limit_hit = TRUE,
                             !.both_at_check = @ \/ ShouldStop(events),
                             !.stops = @ \cup {"max_posts"}])
    /\ UNCHANGED <<tapVars, cfg, search_url, fetch_cards, idx, all_posts, session_seen,
                   empty_pages, captcha_mode, consecutive_captchas,
                   consecutive_failures, events, att, error>>

\* hybrid.py:256-259: the health hard-stop mid-page; `break` leaves the candidate loop.
HealthBreak ==
    /\ pc = "cand"
    /\ idx <= Len(fetch_cards)
    /\ ~LimitReached
    /\ ShouldStop(events)
    /\ stop_reason' = "health_stop"
    /\ NextPage([hist EXCEPT !.stops = @ \cup {"health_stop"}])
    /\ UNCHANGED <<tapVars, cfg, search_url, fetch_cards, idx, all_posts, session_seen,
                   empty_pages, captcha_mode, consecutive_captchas,
                   consecutive_failures, events, att, error>>

\* (mutant) only a card marked _skip_detail goes without a detail attempt
SkipsDetailMarkedOnly(mode, card) == card.skip_detail

\* hybrid.py:281: `if captcha_mode or card.get("_skip_detail")`
SkipsDetail(mode, card) == mode \/ card.skip_detail

\* hybrid.py:281-293: in CAPTCHA-avoidance mode, or for a card marked
\* _skip_detail, no detail view is opened.
SkipDetail ==
    /\ pc = "cand"
    /\ idx <= Len(fetch_cards)
    /\ ~LimitReached
    /\ ~ShouldStop(events)
    /\ SkipsDetail(captcha_mode, CurCard)
    /\ LET post == CardOnlyPost(CurCard,
                                IF CurCard.skip_detail THEN "skipped" ELSE "captcha")
           failed == captcha_mode /\ ~CurCard.skip_detail
       IN  FinishCandidate(post, consecutive_captchas,
                           IF failed THEN consecutive_failures + 1 ELSE consecutive_failures,
                           captcha_mode,
                           IF failed THEN HealthRecord(events, "captcha") ELSE events,
                           FALSE)
    /\ UNCHANGED tapVars

\* hybrid.py:295 and 45-47: the detail attempt begins by clearing the tap.
BeginAttempt ==
    /\ pc = "cand"
    /\ idx <= Len(fetch_cards)
    /\ ~LimitReached
    /\ ~ShouldStop(events)
    /\ ~SkipsDetail(captcha_mode, CurCard)
    /\ Clear(CurCard.note_id)
    /\ att' = [NoAtt EXCEPT !.card = CurCard, !.start = clock]
    /\ pc' = "open"
    /\ hist' = [hist EXCEPT
                  !.after_limit = IF hist.limit_hit THEN "attempt" ELSE @,
                  !.stale_cleared = @ \/ CurCard.note_id \in Held(feed_data, comment_data)]
    /\ UNCHANGED <<listening, page_listeners, clock, tap_op, last_evict,
                   cfg, search_url, page_num, fetch_cards, idx, all_posts, session_seen,
                   empty_pages, captcha_mode, consecutive_captchas,
                   consecutive_failures, stop_reason, events, error>>

----------------------------------------------------------------------------
(* _fetch_post_detail_hybrid *)

attemptFrame == <<tapVars, cfg, search_url, page_num, fetch_cards, idx, all_posts,
                  session_seen, empty_pages, captcha_mode, consecutive_captchas,
                  consecutive_failures, stop_reason, events>>

\* An adapter call inside the try block raised e; called are the calls made
\* by the step that raised. The feed read so far stays in its local.
ToExcept(e, called) ==
    /\ att' = [NoAtt EXCEPT !.card = att.card, !.slept = att.slept, !.exc = e,
                            !.feed = att.feed, !.opened = att.opened,
                            !.calls = att.calls \cup called]
    /\ pc' = "except"
    /\ hist' = [hist EXCEPT !.nominal = FALSE]

\* hybrid.py:51-57: open_detail returns True, returns False or raises.
OpenDetail ==
    /\ pc = "open"
    /\ \E r \in {"ok", "false"} \cup Raises :
        CASE r = "ok" ->
                /\ att' = [att EXCEPT !.slept = TRUE, !.opened = TRUE]
                /\ pc' = "captcha"
                /\ UNCHANGED hist
          [] r = "false" ->
                /\ att' = [att EXCEPT
                             !.post = CardOnlyPost(att.card, "link_not_found"),
                             !.is_captcha = FALSE]
                /\ pc' = "classify"
                /\ hist' = [hist EXCEPT !.nominal = FALSE]
          [] OTHER -> ToExcept(r, {})
    /\ UNCHANGED <<attemptFrame, error>>

\* hybrid.py:60-64: has_captcha; when it says so dismiss_captcha and has_captcha
\* again. Any of the three calls may raise.
CheckCaptcha ==
    /\ pc = "captcha"
    /\ \E r \in {"none", "dismissed", "persists"} \cup Raises :
        IF r \in Raises
        THEN ToExcept(r, {})
        ELSE /\ att' = [att EXCEPT !.captcha = (r = "persists")]
             /\ pc' = "wait"
             /\ hist' = [hist EXCEPT !.nominal = @ /\ r # "persists"]
    /\ UNCHANGED <<attemptFrame, error>>

\* hybrid.py:67-71: wait_for_detail returns whether the detail rendered, or raises.
WaitForDetail ==
    /\ pc = "wait"
    /\ \E r \in {"loaded", "not_loaded"} \cup Raises :
        IF r \in Raises
        THEN ToExcept(r, {"wait"})
        ELSE /\ att' = [att EXCEPT !.detail_loaded = (r = "loaded"),
                                   !.calls = @ \cup {"wait"}]
             /\ pc' = "poll"
             /\ UNCHANGED hist
    /\ UNCHANGED <<attemptFrame, error>>

\* History: whether the data the tap holds for nid was all captured after start.
TapDataSince(nid, start) ==
    IF nid \notin Held(feed_data, comment_data) THEN "none"
    ELSE IF cap_first[nid] > start THEN "fresh" ELSE "stale"

\* hybrid.py:74-83: the reads of the first polling loop. The loop sleeps with
\* time.sleep between its reads, so the page delivers nothing meanwhile: every
\* read of the loop sees what the first one sees.
PollTap ==
    /\ pc = "poll"
    /\ LET feed == GetFeed(att.card.note_id)
           api_comments == GetComments(att.card.note_id)
       IN  /\ att' = [att EXCEPT !.feed = feed, !.api_comments = api_comments,
                                 !.tap = TapDataSince(att.card.note_id, att.start)]
           /\ pc' = IF feed # None /\ api_comments = <<>> THEN "poll_comments" ELSE "extract"
    /\ UNCHANGED <<attemptFrame, error, hist>>

\* hybrid.py:84-88: the second polling loop, for the comments only.
PollComments ==
    /\ pc = "poll_comments"
    /\ att' = [att EXCEPT !.api_comments = GetComments(att.card.note_id)]
    /\ pc' = "extract"
    /\ UNCHANGED <<attemptFrame, error, hist>>

\* hybrid.py:91-142: extract_detail, extract_comments (when the tap gave no
\* comments), take_screenshot, close_detail, any of which may raise; then the
\* merge. dom is the content extract_detail found.
ExtractDetail ==
    /\ pc = "extract"
    /\ \E dom \in {"", "text"} \cup Raises :
        IF dom \in Raises
        THEN ToExcept(dom, {"extract"})
        ELSE /\ att' = [att EXCEPT
                          !.post = MergePost(att.card, att.feed, att.api_comments, dom,
                                             att.detail_loaded, att.tap),
                          !.is_captcha = att.captcha,
                          !.calls = @ \cup {"extract", "close"}]
             /\ pc' = "classify"
             /\ UNCHANGED hist
    /\ UNCHANGED <<attemptFrame, error>>

\* hybrid.py:144-161: the except block. has_captcha is called outside any
\* try; close_detail and page.goto are guarded. human_sleep runs only after a
\* page.goto that did not raise.
HandleException ==
    /\ pc = "except"
    /\ \E hc \in {"yes", "no", "raise"} :
       \E nav \in (IF search_url /\ hc # "raise" THEN {"ok", "raise"} ELSE {"none"}) :
        IF hc = "raise"
        THEN /\ RaiseOut("attempt")
             /\ UNCHANGED att
        ELSE LET captcha == (hc = "yes")
                 reason == IF captcha THEN ""
                           ELSE IF att.exc = "Timeout" THEN "modal_timeout"
                           ELSE "empty_content"
             IN  /\ att' = [att EXCEPT
                              !.post = CardOnlyPost(att.card, reason),
                              !.is_captcha = captcha,
                              !.captcha = captcha,
                              !.slept = @ \/ nav = "ok",
                              !.calls = @ \cup {"close"}]
                 /\ pc' = "classify"
                 /\ UNCHANGED <<error, hist>>
    /\ UNCHANGED attemptFrame

\* (mutant) the mode is entered at the first captcha
EntersCaptchaModeAtOnce(streak) == streak >= 1

\* hybrid.py:310: `if consecutive_captchas >= 2: captcha_mode = True`
EntersCaptchaMode(streak) == streak >= 2

\* (mutant) a Record without content is a failure only when it has no
\* provenance at all
EmptyOutcomeCardOnly(post) == post.content = "" /\ post.data_source = "none"

\* hybrid.py:312-313: `post and not post.get("content") and
\* post.get("_data_source") != "passive_api"`
EmptyOutcome(post) == post.content = "" /\ post.data_source # "passive_api"

\* hybrid.py:299-347: the classification of the attempt's outcome. instant is
\* `round(_card_elapsed, 1) == 0.0`, possible only when no human_sleep ran. An
\* instant UI failure re-navigates to the listing URL (page.goto, whose
\* failure is swallowed) when adapter.search returned one.
Classify ==
    /\ pc = "classify"
    /\ \E instant \in (IF att.slept THEN {FALSE} ELSE BOOLEAN) :
        LET post == att.post
        IN  IF att.is_captcha
            THEN FinishCandidate(
                    [post EXCEPT !.card_only = TRUE, !.reason = "captcha"],
                    consecutive_captchas + 1,
                    consecutive_failures + 1,
                    captcha_mode \/ EntersCaptchaMode(consecutive_captchas + 1),
                    HealthRecord(events, "captcha"),
                    FALSE)
            ELSE IF EmptyOutcome(post)
            THEN LET fail_reason == IF post.reason \in {"none", ""}
                                    THEN "empty_content" ELSE post.reason
                     instant_ui_fail == instant /\ fail_reason \in {"link_not_found",
                                                                    "modal_timeout"}
                 IN  FinishCandidate(
                        [post EXCEPT !.card_only = TRUE, !.reason = fail_reason],
                        0,
                        IF instant_ui_fail THEN consecutive_failures
                        ELSE consecutive_failures + 1,
                        captcha_mode,
                        HealthRecord(events, "empty"),
                        instant_ui_fail /\ search_url)
            ELSE FinishCandidate(post, 0, 0, captcha_mode, HealthRecord(events, "ok"), FALSE)
    /\ UNCHANGED tapVars

----------------------------------------------------------------------------
(* strategy_hybrid: the finally block, and the page's deliveries *)

\* (mutant) tap.stop() after the loop instead of in a finally block: it is
\* skipped when an exception propagates.
RunFinallyNotOnError ==
    /\ pc = "finally"
    /\ IF error = "none"
       THEN /\ Stop
            /\ hist' = [hist EXCEPT !.detach_calls = @ + (IF tap_op'.page_called THEN 1 ELSE 0)]
       ELSE UNCHANGED <<listening, page_listeners, tap_op, hist>>
    /\ pc' = IF error = "none" THEN "done" ELSE "raised"
    /\ UNCHANGED <<feed_data, comment_data, timestamps, clock, last_evict, cap_first,
                   cap_last, cfg, search_url, page_num, fetch_cards, idx, all_posts,
                   session_seen, empty_pages, captcha_mode, consecutive_captchas,
                   consecutive_failures, stop_reason, events, att, error>>

\* hybrid.py:420-445: tap.stop() in the finally block; then the exception, if
\* any, propagates, else all_posts is returned.
RunFinally ==
    /\ pc = "finally"
    /\ Stop
    /\ hist' = [hist EXCEPT !.detach_calls = @ + (IF tap_op'.page_called THEN 1 ELSE 0)]
    /\ pc' = IF error = "none" THEN "done" ELSE "raised"
    /\ UNCHANGED <<feed_data, comment_data, timestamps, clock, last_evict, cap_first,
                   cap_last, cfg, search_url, page_num, fetch_cards, idx, all_posts,
                   session_seen, empty_pages, captcha_mode, consecutive_captchas,
                   consecutive_failures, stop_reason, events, att, error>>

\* The page dispatches its events while the run is inside a call on the page or
\* the adapter, not while it sleeps or computes. Deliveries are taken at the
\* calls that precede a tap read: the page-level calls (extract_cards, scroll),
\* open_detail and wait_for_detail. A response that arrives during a later
\* call of the attempt is read by nothing before the next of these points, so
\* it is the same as one that arrives there.
Yielding == pc \in {"page", "open", "wait"}

\* A feed response arrives and the attached listener handles it.
RunFeedResponse ==
    /\ Yielding
    /\ page_listeners > 0
    /\ clock < MaxRunClock
    /\ \E nid \in RunTapIds : \E parsed \in RunFeedPayloads(nid) :
        /\ StoreFeed(nid, parsed)
        /\ hist' = [hist EXCEPT
                      !.feed_A = IF pc # "page" /\ att.card.note_id = nid THEN "during"
                                 ELSE IF @ = "none" THEN "outside" ELSE @]
    /\ UNCHANGED <<listening, page_listeners, tap_op, pc, cfg, search_url, page_num,
                   fetch_cards, idx, all_posts, session_seen, empty_pages, captcha_mode,
                   consecutive_captchas, consecutive_failures, stop_reason, events,
                   att, error>>

\* A comments response arrives and the attached listener handles it.
RunCommentsResponse ==
    /\ Yielding
    /\ page_listeners > 0
    /\ clock < MaxRunClock
    /\ \E nid \in RunTapIds : \E parsed \in RunCommentBatches :
        StoreComments(nid, parsed)
    /\ UNCHANGED <<listening, page_listeners, tap_op, runVars>>

Init == InitTapState /\ \E c \in Configs : InitRunState(c)

Next ==
    \/ StartRun
    \/ PagesExhausted
    \/ HealthStopAtPage
    \/ ExtractCardsRaises
    \/ ExtractCards
    \/ CandidatesDone
    \/ LimitBreak
    \/ HealthBreak
    \/ SkipDetail
    \/ BeginAttempt
    \/ OpenDetail
    \/ CheckCaptcha
    \/ WaitForDetail
    \/ PollTap
    \/ PollComments
    \/ ExtractDetail
    \/ HandleException
    \/ Classify
    \/ RunFinally
    \/ RunFeedResponse
    \/ RunCommentsResponse

Spec == Init /\ [][Next]_vars


----------------------------------------------------------------------------
(* SpecLoop: the page loop and the candidate loop of strategy_hybrid, with
   each detail attempt taken as one step that yields what
   _fetch_post_detail_hybrid returns *)

\* The identities of the candidates on listing page p (0-based), each page
\* with identities of its own.
LoopIds == <<"A", "B", "C", "D", "E", "F", "G", "H", "I", "J", "K", "L">>
LoopCard(p, i, skip) == Card(LoopIds[2 * p + i], 0, skip)

\* What extract_cards can return for page p: nothing, two candidates, or two
\* of which the second is marked _skip_detail; the last page of a run of two
\* pages may also show its first candidate twice.
LoopListings(p) ==
    { <<>>,
      <<LoopCard(p, 1, FALSE), LoopCard(p, 2, FALSE)>>,
      <<LoopCard(p, 1, FALSE), LoopCard(p, 2, TRUE)>> }
    \cup (IF p = 1 /\ ~cfg.grind
          THEN {<<LoopCard(p, 1, FALSE), LoopCard(p, 1, FALSE)>>} ELSE {})

\* The runs: one or two pages without item limit, or a grind run of budget one
\* (three pages) with a limit of three items.
LoopConfigs ==
    { c \in [max_pages : {1, 2}, max_posts : {0, 3}, grind : BOOLEAN, seen_data : {NoSeen}] :
        c.grind <=> (c.max_pages = 1 /\ c.max_posts > 0) }

\* What _fetch_post_detail_hybrid(page, card, ...) can return, as (post,
\* is_captcha), and whether a human_sleep ran meanwhile:
\*  - hybrid.py:51-55, open_detail returned False;
\*  - hybrid.py:57-142, the merge of a tap feed, or of a document extraction
\*    that found no content, with no CAPTCHA left;
\*  - hybrid.py:144-161, an adapter call raised and has_captcha found a CAPTCHA.
DetailResults(card) ==
    {[post |-> CardOnlyPost(card, "link_not_found"), is_captcha |-> FALSE, slept |-> FALSE]}
    \cup
    {[post |-> MergePost(card, feed, <<>>, "", TRUE, IF feed # None THEN "fresh" ELSE "none"),
      is_captcha |-> FALSE, slept |-> TRUE] :
        feed \in {None, FeedPayload(card.note_id, "text", Now * 1000)}}
    \cup
    {[post |-> CardOnlyPost(card, ""), is_captcha |-> TRUE, slept |-> TRUE]}

\* hybrid.py:295-298 with 37-161: the whole detail attempt. It returns one of
\* the results above, or has_captcha raises inside the except block and the
\* exception leaves the run.
LoopAttempt ==
    /\ pc = "cand"
    /\ idx <= Len(fetch_cards)
    /\ ~LimitReached
    /\ ~ShouldStop(events)
    /\ ~SkipsDetail(captcha_mode, CurCard)
    /\ Clear(CurCard.note_id)
    /\ \/ \E r \in DetailResults(CurCard) :
            /\ att' = [NoAtt EXCEPT !.card = CurCard, !.post = r.post,
                                    !.is_captcha = r.is_captcha, !.slept = r.slept]
            /\ pc' = "classify"
            /\ UNCHANGED <<error, hist>>
       \/ /\ RaiseOut("attempt")
          /\ UNCHANGED att
    /\ UNCHANGED <<listening, page_listeners, clock, tap_op, last_evict,
                   cfg, search_url, page_num, fetch_cards, idx, all_posts, session_seen,
                   empty_pages, captcha_mode, consecutive_captchas,
                   consecutive_failures, stop_reason, events>>

InitLoop == InitTapState /\ \E c \in LoopConfigs : InitRunState(c)

NextLoop ==
    \/ StartRun
    \/ PagesExhausted
    \/ HealthStopAtPage
    \/ ExtractCardsRaises
    \/ ExtractCardsOf(LoopListings(page_num))
    \/ CandidatesDone
    \/ LimitBreak
    \/ HealthBreak
    \/ SkipDetail
    \/ LoopAttempt
    \/ Classify
    \/ RunFinally

SpecLoop == InitLoop /\ [][NextLoop]_vars

\* The loop under the assumption that the program keeps executing: every call
\* it makes returns or raises, and its sleeps and polling loops are bounded by
\* their deadlines (hybrid.py:77-88), so the next step of the run is always
\* taken eventually.
SpecLoopFair == SpecLoop /\ WF_vars(NextLoop)


----------------------------------------------------------------------------
(* orchestrator.py: fetch_posts, the entry point *)

\* hybrid.py:164-167: the parameters of strategy_hybrid
StrategyParams ==
    {"page", "context", "adapter", "keyword", "max_pages", "sort", "screenshot_dir",
     "max_posts", "max_comments", "seen_data", "grind", "max_age_days",
     "analysis_window", "event_logger"}

\* orchestrator.py:54-61 (and 67-74): the ten positional arguments, named by
\* the parameters they bind, and the keyword arguments of the call
FetchPostsPasses ==
    {"page", "context", "adapter", "keyword", "max_pages", "sort", "screenshot_dir",
     "max_posts", "max_comments", "seen_data"}
    \cup {"grind", "max_age_days", "analysis_window", "event_logger",
          "failure_bundle_verbosity"}

\* Python binds a call's arguments before the body runs: a keyword that names
\* no parameter raises TypeError.
UnexpectedKeywords(passed, params) == passed \ params

\* The callers: fetch_posts with a strategy name and a verbosity, or
\* strategy_hybrid itself.
FetchConfigs ==
    { [max_pages |-> c.max_pages, max_posts |-> c.max_posts, grind |-> c.grind,
       seen_data |-> c.seen_data, entry |-> e.entry, strategy |-> e.strategy,
       failure_bundle_verbosity |-> e.verbosity] :
        c \in LoopConfigs,
        e \in [entry : {"fetch_posts"}, strategy : {"hybrid", "api"},
               verbosity : {"off", "minimal", "standard", "full"}]
              \cup {[entry |-> "strategy_hybrid", strategy |-> "hybrid", verbosity |-> "off"]} }

\* Before the call: nothing of a run exists yet.
InitFetch ==
    /\ InitTapState
    /\ cfg \in FetchConfigs
    /\ pc = (IF cfg.entry = "fetch_posts" THEN "fetch_posts" ELSE "start")
    /\ search_url = FALSE
    /\ page_num = 0
    /\ fetch_cards = <<>>
    /\ idx = 0
    /\ all_posts = <<>>
    /\ session_seen = {}
    /\ empty_pages = 0
    /\ captcha_mode = FALSE
    /\ consecutive_captchas = 0
    /\ consecutive_failures = 0
    /\ stop_reason = "max_pages"
    /\ events = <<>>
    /\ att = NoAtt
    /\ error = "none"
    /\ hist = NoHist

\* orchestrator.py:53-74: either branch calls strategy_hybrid with the same
\* arguments. The call raises TypeError when it passes a keyword
\* strategy_hybrid does not have, and fetch_posts has no handler for it; else
\* the run begins.
FetchPosts ==
    /\ pc = "fetch_posts"
    /\ IF UnexpectedKeywords(FetchPostsPasses, StrategyParams) # {}
       THEN /\ pc' = "raised"
            /\ error' = "TypeError"
            /\ hist' = [hist EXCEPT !.escaped = "fetch_posts"]
       ELSE /\ pc' = "start"
            /\ UNCHANGED <<error, hist>>
    /\ UNCHANGED <<tapVars, cfg, search_url, page_num, fetch_cards, idx, all_posts,
                   session_seen, empty_pages, captcha_mode, consecutive_captchas,
                   consecutive_failures, stop_reason, events, att>>

SpecFetch == InitFetch /\ [][FetchPosts \/ NextLoop]_vars

----------------------------------------------------------------------------
(* SpecTap: the tap under arbitrary calls and deliveries *)

InitTap ==
    /\ InitTapState
    /\ InitRunState([max_pages |-> 1, max_posts |-> 0, grind |-> FALSE,
                     seen_data |-> NoSeen])

TapStart ==
    /\ Start
    /\ UNCHANGED <<feed_data, comment_data, timestamps, clock, last_evict,
                   cap_first, cap_last, runVars>>

TapStop ==
    /\ Stop
    /\ UNCHANGED <<feed_data, comment_data, timestamps, clock, last_evict,
                   cap_first, cap_last, runVars>>

TapClear ==
    \E nid \in NoteIds :
        /\ Clear(nid)
        /\ UNCHANGED <<listening, page_listeners, clock, tap_op, last_evict, runVars>>

\* The page fires "response" for a feed route; the attached listener handles it.
TapFeedResponse ==
    \E nid \in NoteIds : \E parsed \in TapFeedPayloads(nid) :
        /\ page_listeners > 0
        /\ clock < MaxClock
        /\ StoreFeed(nid, parsed)
        /\ UNCHANGED <<listening, page_listeners, tap_op, runVars>>

\* The page fires "response" for a comments route.
TapCommentsResponse ==
    \E nid \in NoteIds : \E parsed \in TapCommentBatches :
        /\ page_listeners > 0
        /\ clock < MaxClock
        /\ StoreComments(nid, parsed)
        /\ UNCHANGED <<listening, page_listeners, tap_op, runVars>>

NextTap ==
    \/ TapStart
    \/ TapStop
    \/ TapClear
    \/ TapFeedResponse
    \/ TapCommentsResponse

SpecTap == InitTap /\ [][NextTap]_vars


----------------------------------------------------------------------------
(* SpecRoute: _on_response and _handle_response, from the response to the
   buffers (passive_tap.py:139-187) *)

\* The page delivers at most MaxRouteClock responses.
MaxRouteClock == 3

\* _extract_note_id_from_url: the first of the query parameters note_id,
\* aweme_id, item_id that has a non-empty value ("" when none has; parse_qs
\* drops blank values).
UrlIdKeys == <<"note_id", "aweme_id", "item_id">>

RECURSIVE FirstUrlId(_, _)
FirstUrlId(params, i) ==
    IF i > Len(UrlIdKeys) THEN ""
    ELSE IF params[UrlIdKeys[i]] # "" THEN params[UrlIdKeys[i]]
    ELSE FirstUrlId(params, i + 1)

ExtractNoteIdFromUrl(params) == FirstUrlId(params, 1)

\* (mutant) the URL is asked whatever the response's kind
NeedsUrlIdAnyKind(data_type, note_id) == note_id = ""

\* passive_tap.py:164: `if not note_id and data_type == "comments"`
NeedsUrlId(data_type, note_id) == note_id = "" /\ data_type = "comments"

\* A response: the kind its route's parser gives ("none": no route matches),
\* whether reading its url raises, its status, what response.json() gives,
\* what the parser gives, what adapter.extract_note_id_from_api gives, and
\* the query parameters of its URL.
UrlParams ==
    [note_id : {"", "B"}, aweme_id : {"", "C"}, item_id : {"", "A"}]

NoParams == [note_id |-> "", aweme_id |-> "", item_id |-> ""]

GoodResponse(kind, id, params) ==
    [route |-> kind, url |-> "ok", status |-> 200, body |-> "dict", parsed |-> "data",
     adapter_id |-> id, params |-> params]

Responses ==
    {GoodResponse(k, id, p) : k \in {"feed", "comments"}, id \in {"", "A", "raise"},
                              p \in UrlParams}
    \cup {[GoodResponse(k, "A", NoParams) EXCEPT !.url = "raise"] : k \in {"none", "feed"}}
    \cup {GoodResponse("none", "A", NoParams)}
    \cup {[GoodResponse(k, "A", NoParams) EXCEPT !.status = 404] : k \in {"feed", "comments"}}
    \cup {[GoodResponse(k, "A", NoParams) EXCEPT !.body = b] :
             k \in {"feed", "comments"}, b \in {"list", "raise"}}
    \cup {[GoodResponse(k, "A", NoParams) EXCEPT !.parsed = p] :
             k \in {"feed", "comments"}, p \in {"empty", "raise"}}

Did(result, nid) == [result |-> result, note_id |-> nid]

\* passive_tap.py:163-168: the identity of a parsed response
ResponseId(resp) ==
    IF NeedsUrlId(resp.route, resp.adapter_id)
    THEN ExtractNoteIdFromUrl(resp.params)
    ELSE resp.adapter_id

\* passive_tap.py:141-168: what the handler does with a response before it
\* touches the buffers: it returns ("dropped"), an exception is raised inside
\* one of its try blocks ("caught"), or it goes on to store under note_id.
HandleResponse(resp) ==
    IF resp.url = "raise" THEN Did("caught", "")
    ELSE IF resp.route = "none" THEN Did("dropped", "")
    ELSE IF resp.status # 200 THEN Did("dropped", "")
    ELSE IF resp.body = "raise" THEN Did("caught", "")
    ELSE IF resp.body # "dict" THEN Did("dropped", "")
    ELSE IF resp.parsed = "raise" THEN Did("caught", "")
    ELSE IF resp.parsed = "empty" THEN Did("dropped", "")
    ELSE IF resp.adapter_id = "raise" THEN Did("caught", "")
    ELSE IF ResponseId(resp) = "" THEN Did("dropped", "")
    ELSE Did("store", ResponseId(resp))

routeFrame == <<listening, page_listeners, tap_op, pc, cfg, search_url, page_num,
                fetch_cards, idx, all_posts, session_seen, empty_pages, captcha_mode,
                consecutive_captchas, consecutive_failures, stop_reason, events, att>>

\* The tap after start(). History: the last response and what became of it.
InitRoute ==
    /\ InitTapState
    /\ InitRunState([max_pages |-> 1, max_posts |-> 0, grind |-> FALSE,
                     seen_data |-> NoSeen])

RouteStart ==
    /\ ~listening
    /\ Start
    /\ hist' = [resp |-> GoodResponse("none", "", NoParams), did |-> Did("none", "")]
    /\ UNCHANGED <<feed_data, comment_data, timestamps, clock, last_evict,
                   cap_first, cap_last, pc, cfg, search_url, page_num,
                   fetch_cards, idx, all_posts, session_seen, empty_pages, captcha_mode,
                   consecutive_captchas, consecutive_failures, stop_reason, events, att,
                   error>>

\* The page fires "response": _on_response runs to its end. Both of its try
\* blocks catch Exception and log, so nothing reaches the page.
RouteResponse ==
    /\ page_listeners > 0
    /\ clock < MaxRouteClock
    /\ \E resp \in Responses :
        /\ hist' = [resp |-> resp, did |-> HandleResponse(resp)]
        /\ IF HandleResponse(resp).result = "store"
           THEN IF resp.route = "feed"
                THEN \E parsed \in TapFeedPayloads(HandleResponse(resp).note_id) :
                        StoreFeed(HandleResponse(resp).note_id, parsed)
                ELSE \E parsed \in TapCommentBatches :
                        StoreComments(HandleResponse(resp).note_id, parsed)
           ELSE /\ clock' = clock + 1
                /\ UNCHANGED <<feed_data, comment_data, timestamps, last_evict,
                               cap_first, cap_last>>
    /\ UNCHANGED <<routeFrame, error>>

RouteClear ==
    /\ listening
    /\ \E nid \in NoteIds :
        /\ Clear(nid)
        /\ UNCHANGED <<routeFrame, clock, last_evict, error, hist>>

SpecRoute == InitRoute /\ [][RouteStart \/ RouteResponse \/ RouteClear]_vars


----------------------------------------------------------------------------
(* SpecComments: comment and feed responses and clear() calls, with the
   comments delivered for each identity since the tap last dropped it *)

\* What a comments response can carry: comment 1, or a comment without id and comment 2.
DeliveredBatches == {<<1>>, <<0, 2>>}

NoneDelivered == [n \in NoteIds |-> <<>>]

commentsFrame == <<listening, page_listeners, tap_op, pc, cfg, search_url, page_num,
                   fetch_cards, idx, all_posts, session_seen, empty_pages, captcha_mode,
                   consecutive_captchas, consecutive_failures, stop_reason, events, att,
                   error>>

InitComments ==
    /\ InitTapState
    /\ search_url = FALSE
    /\ page_num = 0
    /\ idx = 0
    /\ empty_pages = 0
    /\ captcha_mode = FALSE
    /\ consecutive_captchas = 0
    /\ consecutive_failures = 0
    /\ stop_reason = "max_pages"
    /\ error = "none"
    /\ pc = "start"
    /\ cfg = [max_pages |-> 1, max_posts |-> 0, grind |-> FALSE, seen_data |-> NoSeen]
    /\ att = NoAtt
    /\ events = <<>>
    /\ fetch_cards = <<>>
    /\ all_posts = <<>>
    /\ session_seen = {}
    /\ hist = [delivered |-> NoneDelivered]

\* History: an identity the response for another identity pushed out of the
\* comments buffer starts anew.
StillDelivered(delivered, cd) ==
    [n \in NoteIds |-> IF DictHas(cd, n) THEN delivered[n] ELSE <<>>]

\* The page fires "response" for a comments route (passive_tap.py:179-185).
CommentsResponse ==
    \E nid \in NoteIds : \E parsed \in DeliveredBatches :
        /\ clock < MaxRouteClock
        /\ StoreComments(nid, parsed)
        /\ hist' = [delivered |->
                      StillDelivered([hist.delivered EXCEPT ![nid] = @ \o parsed],
                                     comment_data')]
        /\ UNCHANGED commentsFrame

\* The page fires "response" for a feed route (passive_tap.py:172-178).
CommentsFeedResponse ==
    \E nid \in NoteIds : \E parsed \in TapFeedPayloads(nid) :
        /\ clock < MaxRouteClock
        /\ StoreFeed(nid, parsed)
        /\ UNCHANGED <<commentsFrame, hist>>

CommentsClear ==
    \E nid \in NoteIds :
        /\ Clear(nid)
        /\ hist' = [delivered |-> [hist.delivered EXCEPT ![nid] = <<>>]]
        /\ UNCHANGED <<commentsFrame, clock, last_evict>>

SpecComments ==
    InitComments /\ [][CommentsResponse \/ CommentsFeedResponse \/ CommentsClear]_vars

----------------------------------------------------------------------------
(* SpecWait: one call of PassiveTap.wait_for, with the page delivering       *)
(* responses before the call and while the call yields to the page.         *)
(* pc is the position of the call, att holds its arguments, locals and      *)
(* result, hist its history; time.monotonic() is the tap's clock.           *)

\* The identity waited for, and a second one the page also answers for.
WaitIds == {"A", "B"}

\* timeout, in clock ticks; 0 is a deadline that has passed at the first test.
Timeouts == {0, 1, 3}

\* The page delivers no response once the clock has reached MaxWaitClock.
MaxWaitClock == 4

\* History: yields counts the page.wait_for_timeout calls, held_at_call says
\* the requested conditions held when wait_for was called, late says a wanted
\* response was delivered during the last yield.
NoWaitHist == [yields |-> 0, held_at_call |-> FALSE, late |-> FALSE]

\* The arguments and locals of wait_for, and the WaitResult it returns.
NoWait ==
    [note_id |-> NoId, need_feed |-> FALSE, need_comments |-> FALSE, deadline |-> 0,
     feed |-> None, comments |-> <<>>, timed_out |-> FALSE]

waitFrame == <<cfg, search_url, page_num, fetch_cards, idx, all_posts, session_seen,
               empty_pages, captcha_mode, consecutive_captchas, consecutive_failures,
               stop_reason, events, error>>

\* The tap has been started on the page; no call is in progress.
InitWait ==
    /\ feed_data = <<>>
    /\ comment_data = <<>>
    /\ timestamps = <<>>
    /\ listening = TRUE
    /\ page_listeners = 1
    /\ clock = 0
    /\ tap_op = [op |-> "start", was_listening |-> FALSE, page_called |-> TRUE]
    /\ last_evict = NoEvict
    /\ cap_first = <<>>
    /\ cap_last = <<>>
    /\ pc = "idle"
    /\ att = NoWait
    /\ hist = NoWaitHist
    /\ cfg = [max_pages |-> 1, max_posts |-> 0, grind |-> FALSE, seen_data |-> NoSeen]
    /\ search_url = FALSE
    /\ page_num = 0
    /\ fetch_cards = <<>>
    /\ idx = 0
    /\ all_posts = <<>>
    /\ session_seen = {}
    /\ empty_pages = 0
    /\ captcha_mode = FALSE
    /\ consecutive_captchas = 0
    /\ consecutive_failures = 0
    /\ stop_reason = "max_pages"
    /\ events = <<>>
    /\ error = "none"

\* History: whether the buffers hold what is requested for nid.
WantedHeld(nid, need_feed, need_comments) ==
    /\ need_feed => DictHas(feed_data, nid)
    /\ need_comments => DictGet(comment_data, nid, <<>>) # <<>>

\* passive_tap.py:110-111: what one poll reads.
WaitRead(nid, need_feed, need_comments) ==
    [feed |-> IF need_feed THEN GetFeed(nid) ELSE None,
     comments |-> IF need_comments THEN GetComments(nid) ELSE <<>>]

\* (mutant) the conditions joined by `or` instead of `and`.
WaitCondsEither(r, need_feed, need_comments) ==
    \/ (~need_feed) \/ r.feed # None
    \/ (~need_comments) \/ Len(r.comments) > 0

\* passive_tap.py:112-114: feed_ok and comments_ok.
WaitConds(r, need_feed, need_comments) ==
    /\ (~need_feed) \/ r.feed # None
    /\ (~need_comments) \/ Len(r.comments) > 0

\* passive_tap.py:105-106: wait_for(note_id, need_feed, need_comments, timeout) is called.
WaitCall ==
    /\ pc = "idle"
    /\ \E nf \in BOOLEAN, nc \in BOOLEAN, t \in Timeouts :
        /\ att' = [NoWait EXCEPT !.note_id = "A", !.need_feed = nf, !.need_comments = nc,
                                 !.deadline = clock + t]
        /\ hist' = [NoWaitHist EXCEPT
                      !.held_at_call = WantedHeld("A", nf, nc)]
    /\ pc' = "loop"
    /\ UNCHANGED <<tapVars, waitFrame>>

\* passive_tap.py:108: the loop test fails; on to the final check.
WaitDeadline ==
    /\ pc = "loop"
    /\ ~(clock < att.deadline)
    /\ pc' = "final"
    /\ UNCHANGED <<tapVars, waitFrame, att, hist>>

\* passive_tap.py:108-120: the loop test passes and the poll reads the buffers;
\* it returns when the conditions hold, else it goes on to yield.
WaitPoll ==
    /\ pc = "loop"
    /\ clock < att.deadline
    /\ LET r == WaitRead(att.note_id, att.need_feed, att.need_comments)
       IN  IF WaitConds(r, att.need_feed, att.need_comments)
           THEN /\ att' = [att EXCEPT !.feed = r.feed, !.comments = r.comments,
                                      !.timed_out = FALSE]
                /\ pc' = "returned"
                /\ UNCHANGED hist
           ELSE /\ att' = [att EXCEPT !.feed = r.feed, !.comments = r.comments]
                /\ pc' = "yield"
                /\ hist' = [hist EXCEPT !.yields = @ + 1, !.late = FALSE]
    /\ UNCHANGED <<tapVars, waitFrame>>

\* passive_tap.py:121-124: page.wait_for_timeout returns; it lasts a tick or two.
WaitYieldReturns ==
    /\ pc = "yield"
    /\ \E d \in 1..2 : clock' = clock + d
    /\ pc' = "loop"
    /\ UNCHANGED <<feed_data, comment_data, timestamps, listening, page_listeners,
                   tap_op, last_evict, cap_first, cap_last, waitFrame, att, hist>>

\* passive_tap.py:125-127: page.wait_for_timeout raises; `break`.
WaitYieldRaises ==
    /\ pc = "yield"
    /\ pc' = "final"
    /\ UNCHANGED <<tapVars, waitFrame, att, hist>>

\* (mutant) no final check: the result carries what the last poll read.
WaitLastPoll(nid, need_feed, need_comments) ==
    [feed |-> att.feed, comments |-> att.comments]

\* passive_tap.py:130-131: the final check reads the buffers again.
WaitFinalRead(nid, need_feed, need_comments) ==
    WaitRead(nid, need_feed, need_comments)

\* (mutant) the final check reports timed_out by what it found.
WaitFinalJudged ==
    /\ pc = "final"
    /\ LET r == WaitFinalRead(att.note_id, att.need_feed, att.need_comments)
       IN  att' = [att EXCEPT !.feed = r.feed, !.comments = r.comments,
                              !.timed_out = ~WaitConds(r, att.need_feed, att.need_comments)]
    /\ pc' = "returned"
    /\ UNCHANGED <<tapVars, waitFrame, hist>>

\* passive_tap.py:129-137: the final check and the timed-out result.
WaitFinal ==
    /\ pc = "final"
    /\ LET r == WaitFinalRead(att.note_id, att.need_feed, att.need_comments)
       IN  att' = [att EXCEPT !.feed = r.feed, !.comments = r.comments,
                              !.timed_out = TRUE]
    /\ pc' = "returned"
    /\ UNCHANGED <<tapVars, waitFrame, hist>>

\* The page delivers a feed response: before the call, or during a yield.
WaitFeedResponse ==
    /\ pc \in {"idle", "yield"}
    /\ clock < MaxWaitClock
    /\ \E nid \in WaitIds : \E parsed \in TapFeedPayloads(nid) :
        /\ StoreFeed(nid, parsed)
        /\ hist' = [hist EXCEPT !.late = @ \/ (pc = "yield" /\ nid = att.note_id)]
    /\ UNCHANGED <<listening, page_listeners, tap_op, pc, att, waitFrame>>

\* The page delivers a comments response: before the call, or during a yield.
WaitCommentsResponse ==
    /\ pc \in {"idle", "yield"}
    /\ clock < MaxWaitClock
    /\ \E nid \in WaitIds : \E parsed \in TapCommentBatches :
        /\ StoreComments(nid, parsed)
        /\ hist' = [hist EXCEPT !.late = @ \/ (pc = "yield" /\ nid = att.note_id)]
    /\ UNCHANGED <<listening, page_listeners, tap_op, pc, att, waitFrame>>

NextWait ==
    \/ WaitCall
    \/ WaitDeadline
    \/ WaitPoll
    \/ WaitYieldReturns
    \/ WaitYieldRaises
    \/ WaitFinal
    \/ WaitFeedResponse
    \/ WaitCommentsResponse

SpecWait == InitWait /\ [][NextWait]_vars

----------------------------------------------------------------------------
(* The functions of the library taken alone: each specification below draws the
   inputs of one of them and applies it. The variables a function does not use
   keep the values given here. *)

pureFrame == <<feed_data, comment_data, timestamps, listening, page_listeners, clock,
               tap_op, last_evict, cap_first, cap_last, search_url, page_num, idx,
               empty_pages, captcha_mode, consecutive_captchas, consecutive_failures,
               stop_reason, error>>

InitPureFrame ==
    /\ InitTapState
    /\ search_url = FALSE
    /\ page_num = 0
    /\ idx = 0
    /\ empty_pages = 0
    /\ captcha_mode = FALSE
    /\ consecutive_captchas = 0
    /\ consecutive_failures = 0
    /\ stop_reason = "max_pages"
    /\ error = "none"

----------------------------------------------------------------------------
(* HealthMonitor alone: a monitor of some window capacity, and record() calls. *)

\* window capacities: small ones, and the default
HealthWindows == {1, 2, 3, 4, HEALTH_WINDOW}

\* the five known tags and an unknown one
HealthTags == {"ok", "captcha", "timeout", "empty", "auth_expired", "other"}

\* number of record() calls of one monitor
MaxRecords == 5

\* number of record() calls when the tags are drawn from two of the six
MaxScoreRecords == 9

TagPairs == {T \in SUBSET HealthTags : Cardinality(T) = 2}

\* HealthMonitor(window=w)
InitMonitor(window, tags, records) ==
    /\ InitPureFrame
    /\ pc = "health"
    /\ cfg = [window |-> window, tags |-> tags, records |-> records]
    /\ events = <<>>
    /\ hist = [log |-> <<>>]
    /\ att = NoAtt
    /\ fetch_cards = <<>>
    /\ all_posts = <<>>
    /\ session_seen = {}

InitHealth == \E w \in HealthWindows : InitMonitor(w, HealthTags, MaxRecords)

InitScore == \E T \in TagPairs : InitMonitor(HEALTH_WINDOW, T, MaxScoreRecords)

\* monitor.record(ev); hist.log keeps every tag recorded, in recording order.
RecordEvent ==
    /\ pc = "health"
    /\ Len(hist.log) < cfg.records
    /\ \E ev \in cfg.tags :
        /\ events' = HealthRecordW(events, ev, cfg.window)
        /\ hist' = [log |-> Append(hist.log, ev)]
    /\ UNCHANGED <<pureFrame, pc, cfg, att, fetch_cards, all_posts, session_seen>>

SpecHealth == InitHealth /\ [][RecordEvent]_vars

SpecScore == InitScore /\ [][RecordEvent]_vars

----------------------------------------------------------------------------
(* should_refetch and filter_cards alone: a page of candidates, a session set and
   a history; hist keeps the arguments of the call. *)

\* candidates on one page
MaxPageLen == 2

\* likes on a card: on either side of twice 10 and of 100 + 50
CardLikes == {19, 20, 149, 150}

\* likes stored in the history: no baseline, and two baselines
StoredLikes == {0, 10, 100}

FilterIds == {"A", "B"}

PageCards == {Card(nid, likes, FALSE) : nid \in FilterIds \cup {NoId}, likes \in CardLikes}

Pages == UNION {[1..n -> PageCards] : n \in 0..MaxPageLen}

\* seen_data: None, or a dict
Histories == {NoSeen} \cup UNION {[D -> StoredLikes] : D \in SUBSET FilterIds}

InitFilter ==
    /\ InitPureFrame
    /\ pc = "input"
    /\ \E page \in Pages, sess \in SUBSET FilterIds :
        /\ hist = [cards |-> page, session_seen |-> sess]
        /\ att = [i |-> 0, st |-> FilterStart(sess)]
    /\ \E seen \in Histories : cfg = [seen_data |-> seen]
    /\ events = <<>>
    /\ fetch_cards = <<>>
    /\ all_posts = <<>>
    /\ session_seen = {}

filterFrame == <<pureFrame, cfg, hist, events, fetch_cards, all_posts, session_seen>>

\* should_refetch(card, seen_data, parse_engagement), on a card of the page
CallRefetch ==
    /\ pc = "input"
    /\ cfg.seen_data # NoSeen
    /\ \E i \in DOMAIN hist.cards :
        att' = [card |-> hist.cards[i],
                result |-> ShouldRefetch(hist.cards[i], cfg.seen_data)]
    /\ pc' = "refetched"
    /\ UNCHANGED filterFrame

\* filter_cards: the next candidate of the loop
FilterCard ==
    /\ pc \in {"input", "filter"}
    /\ att.i < Len(hist.cards)
    /\ att' = [i |-> att.i + 1,
               st |-> FilterStep(hist.cards[att.i + 1], cfg.seen_data, att.st)]
    /\ pc' = "filter"
    /\ UNCHANGED filterFrame

\* filter_cards: return fetch_cards, skipped_cards, n_skipped
FilterReturn ==
    /\ pc \in {"input", "filter"}
    /\ att.i = Len(hist.cards)
    /\ pc' = "returned"
    /\ UNCHANGED <<filterFrame, att>>

NextFilter == CallRefetch \/ FilterCard \/ FilterReturn

SpecFilter == InitFilter /\ [][NextFilter]_vars

----------------------------------------------------------------------------
(* fetch_count and grind_count alone: a list of Records and a max_age_days.
   hist.stamps keeps, for each Record, the instant its "time" denotes, in
   thousandths of a day, and the unit it is written in. *)

\* Records in the list
MaxCountLen == 2

\* An instant `at`, written in seconds ("s"), in milliseconds ("ms"), or not known
\* (time 0 or absent).
Stamp(at, unit) == [at |-> at, unit |-> unit]

\* The "time" of a Record for a stamp: seconds are whole days here.
StampTime(stamp) ==
    CASE stamp.unit = "s" -> stamp.at \div 1000
      [] stamp.unit = "ms" -> stamp.at
      [] OTHER -> 0

\* 8 days ago, 7 days ago and now, in either unit; just before 7 days ago in
\* milliseconds; and no time.
Stamps ==
    {Stamp(0, "unknown"), Stamp((Now - 7) * 1000 - 1, "ms")}
    \cup {Stamp(day * 1000, unit) : day \in {Now - 8, Now - 7, Now}, unit \in {"s", "ms"}}

\* card_only and card_only_reason of a Record
RecordKinds ==
    {[card_only |-> FALSE, reason |-> "none"]}
    \cup {[card_only |-> TRUE, reason |-> r] : r \in {"seen", "skipped", "captcha"}}

InitCount ==
    /\ InitPureFrame
    /\ pc = "input"
    /\ \E n \in 0..MaxCountLen :
        \E stamps \in [1..n -> Stamps], kinds \in [1..n -> RecordKinds] :
            /\ hist = [stamps |-> stamps]
            /\ all_posts = [i \in 1..n |->
                    Post("A", "text", "none", kinds[i].card_only, kinds[i].reason,
                         StampTime(stamps[i]), NoCard, "none")]
    /\ \E days \in {1, 7, 99999} : cfg = [max_age_days |-> days]
    /\ att = [fn |-> "none", n |-> 0]
    /\ events = <<>>
    /\ fetch_cards = <<>>
    /\ session_seen = {}

\* fetch_count(posts), grind_count(posts, max_age_days)
CallCount ==
    /\ pc = "input"
    /\ \/ att' = [fn |-> "fetch_count", n |-> FetchCount(all_posts)]
       \/ att' = [fn |-> "grind_count", n |-> GrindCount(all_posts, cfg.max_age_days)]
    /\ pc' = "counted"
    /\ UNCHANGED <<pureFrame, cfg, hist, events, fetch_cards, all_posts, session_seen>>

SpecCount == InitCount /\ [][CallCount]_vars

----------------------------------------------------------------------------
(* save_seen and load_seen alone (filtering/seen_set.py). The history in memory
   maps an identity to {"likes": int, "comments": int, "ts": str}; the file holds
   JSON values. *)

\* JSON values of the file: a number, a string, null
JsonNumber(n) == [t |-> "number", n |-> n]
JsonString(str) == [t |-> "string", s |-> str]
JsonNull == [t |-> "null"]

\* _safe_int that always takes its default
SafeIntDefault(j) == 0

\* _safe_int(value) on a parsed JSON value that is a number or null: int(value),
\* or the default 0 on TypeError.
SafeInt(j) == IF j.t = "number" THEN j.n ELSE 0

\* value.get("ts", "") or ""
TsOrEmpty(j) == IF j.t = "string" THEN j.s ELSE ""

\* save_seen(seen_file, seen_data): json.dump of the dict
SaveSeen(seen_data) ==
    [kind |-> "object",
     items |-> [nid \in DOMAIN seen_data |->
                  [likes |-> JsonNumber(seen_data[nid].likes),
                   comments |-> JsonNumber(seen_data[nid].comments),
                   ts |-> JsonString(seen_data[nid].ts)]]]

\* load_seen(seen_file): {} without a file or when the file does not parse
\* (empty, or cut off inside the JSON text); a zero baseline for each identity of
\* the old list format; else each entry of the object normalised, an empty key
\* left out.
LoadSeen(file) ==
    CASE file.kind = "missing" -> <<>>
      [] file.kind \in {"empty", "partial"} -> <<>>
      [] file.kind = "array" -> [nid \in file.items |-> [likes |-> 0, comments |-> 0]]
      [] file.kind = "object" ->
            [nid \in DOMAIN file.items \ {NoId} |->
                [likes |-> SafeInt(file.items[nid].likes),
                 comments |-> SafeInt(file.items[nid].comments),
                 ts |-> TsOrEmpty(file.items[nid].ts)]]

\* entries of a history
SeenEntries == [likes : {0, 10}, comments : {0, 5}, ts : {"", "2026-01-01"}]

\* histories over the identities A and B
SeenMaps == UNION {[D -> SeenEntries] : D \in SUBSET {"A", "B"}}

\* the file before the calls: none, or one in the old list format
OldFiles == {[kind |-> "missing"]} \cup {[kind |-> "array", items |-> D] : D \in SUBSET {"A", "B"}}

InitSeen ==
    /\ InitPureFrame
    /\ pc = "input"
    /\ \E data \in SeenMaps : cfg = [seen_data |-> data]
    /\ \E file \in OldFiles : att = [file |-> file, loaded |-> <<>>]
    /\ hist = [saved |-> FALSE]
    /\ events = <<>>
    /\ fetch_cards = <<>>
    /\ all_posts = <<>>
    /\ session_seen = {}

seenFrame == <<pureFrame, cfg, events, fetch_cards, all_posts, session_seen>>

\* save_seen(seen_file, seen_data)
CallSaveSeen ==
    /\ pc = "input"
    /\ att' = [att EXCEPT !.file = SaveSeen(cfg.seen_data)]
    /\ hist' = [saved |-> TRUE]
    /\ pc' = "saved"
    /\ UNCHANGED seenFrame

\* load_seen(seen_file)
CallLoadSeen ==
    /\ pc \in {"input", "saved"}
    /\ att' = [att EXCEPT !.loaded = LoadSeen(att.file)]
    /\ pc' = "loaded"
    /\ UNCHANGED <<seenFrame, hist>>

SpecSeen == InitSeen /\ [][CallSaveSeen \/ CallLoadSeen]_vars


----------------------------------------------------------------------------
(* SpecSave: save_seen step by step, with failures and crashes *)

NoFile == [kind |-> "missing"]

\* A file that was created and holds nothing yet, and one that holds a
\* beginning of the JSON text only.
EmptyFile == [kind |-> "empty"]
PartialFile == [kind |-> "partial"]

\* the history file before the save: none, the old list format, or a history
\* saved earlier
PrevFiles == OldFiles \cup {SaveSeen(d) : d \in [{"A"} -> SeenEntries]}

\* (mutant) the text is written into the history file itself
WriteToTarget(files, content) == [files EXCEPT !.file = content]

\* seen_set.py:22-28: the file json.dump writes into is the temporary file
\* NamedTemporaryFile made in the directory of the history file.
WriteToTemp(files, content) == [files EXCEPT !.tmp = content]

\* seen_set.py:32: os.replace(tmp_path, filepath) puts the temporary file in the
\* place of the history file in one step.
OsReplace(files) == [files EXCEPT !.file = files.tmp, !.tmp = NoFile]

\* seen_set.py:33-38: the finally block removes the temporary file when its
\* name was recorded and it still exists; os.remove may fail (OSError is
\* swallowed).
CleanUp(files, removed) ==
    IF files.tmp_path /\ files.tmp.kind # "missing" /\ removed
    THEN [files EXCEPT !.tmp = NoFile] ELSE files

InitSave ==
    /\ InitPureFrame
    /\ pc = "makedirs"
    /\ \E data \in SeenMaps : cfg = [seen_data |-> data]
    /\ \E file \in PrevFiles :
        /\ att = [file |-> file, tmp |-> NoFile, tmp_path |-> FALSE, loaded |-> <<>>]
        /\ hist = [prev |-> file, raised |-> "none", at |-> "none"]
    /\ events = <<>>
    /\ fetch_cards = <<>>
    /\ all_posts = <<>>
    /\ session_seen = {}

\* The call raises at `where`: the finally block of _atomic_write_json runs,
\* then the exception leaves save_seen.
SaveRaise(where) ==
    /\ hist' = [hist EXCEPT !.raised = where]
    /\ pc' = "finally"

\* seen_set.py:85-87: os.makedirs(directory, exist_ok=True)
SaveMakedirs ==
    /\ pc = "makedirs"
    /\ \E ok \in BOOLEAN :
        IF ok THEN pc' = "create" /\ UNCHANGED hist
        ELSE /\ hist' = [hist EXCEPT !.raised = "makedirs"]
             /\ pc' = "raised"
    /\ UNCHANGED <<seenFrame, att>>

\* seen_set.py:22-27: NamedTemporaryFile(delete=False, dir=directory)
SaveCreateTemp ==
    /\ pc = "create"
    /\ \E ok \in BOOLEAN :
        IF ok THEN /\ att' = WriteToTemp(att, EmptyFile)
                   /\ pc' = "dump"
                   /\ UNCHANGED hist
        ELSE SaveRaise("create") /\ UNCHANGED att
    /\ UNCHANGED seenFrame

\* seen_set.py:28: json.dump writes the text in pieces; a history with entries
\* takes more than one piece, so the file holds a beginning of the text before
\* it holds all of it. A write may raise.
SaveDump ==
    /\ pc = "dump"
    /\ \E ok \in BOOLEAN :
        IF ~ok THEN SaveRaise("dump") /\ UNCHANGED att
        ELSE IF att.tmp.kind = "empty" /\ DOMAIN cfg.seen_data # {}
        THEN /\ att' = WriteToTemp(att, PartialFile)
             /\ UNCHANGED <<pc, hist>>
        ELSE /\ att' = WriteToTemp(att, SaveSeen(cfg.seen_data))
             /\ pc' = "sync"
             /\ UNCHANGED hist
    /\ UNCHANGED seenFrame

\* seen_set.py:29-31: flush and fsync, then the name is recorded and the file
\* closed.
SaveSync ==
    /\ pc = "sync"
    /\ \E ok \in BOOLEAN :
        IF ok THEN /\ att' = [att EXCEPT !.tmp_path = TRUE]
                   /\ pc' = "replace"
                   /\ UNCHANGED hist
        ELSE SaveRaise("sync") /\ UNCHANGED att
    /\ UNCHANGED seenFrame

\* seen_set.py:32: os.replace
SaveReplace ==
    /\ pc = "replace"
    /\ \E ok \in BOOLEAN :
        IF ok THEN /\ att' = OsReplace(att)
                   /\ pc' = "finally"
                   /\ UNCHANGED hist
        ELSE SaveRaise("replace") /\ UNCHANGED att
    /\ UNCHANGED seenFrame

\* seen_set.py:33-38: the finally block; then save_seen returns or the
\* exception propagates.
SaveFinally ==
    /\ pc = "finally"
    /\ \E removed \in BOOLEAN : att' = CleanUp(att, removed)
    /\ pc' = IF hist.raised = "none" THEN "returned" ELSE "raised"
    /\ UNCHANGED <<seenFrame, hist>>

\* The process dies between two steps of the save; nothing more runs.
SaveCrash ==
    /\ pc \in {"makedirs", "create", "dump", "sync", "replace", "finally"}
    /\ hist' = [hist EXCEPT !.at = pc]
    /\ pc' = "crashed"
    /\ UNCHANGED <<seenFrame, att>>

\* load_seen(seen_file) by a later process or after the save ended
SaveThenLoad ==
    /\ pc \in {"returned", "raised", "crashed"}
    /\ att' = [att EXCEPT !.loaded = LoadSeen(att.file)]
    /\ hist' = [hist EXCEPT !.at = IF @ = "none" THEN pc ELSE @]
    /\ pc' = "loaded"
    /\ UNCHANGED seenFrame

NextSave ==
    \/ SaveMakedirs
    \/ SaveCreateTemp
    \/ SaveDump
    \/ SaveSync
    \/ SaveReplace
    \/ SaveFinally
    \/ SaveCrash
    \/ SaveThenLoad

SpecSave == InitSave /\ [][NextSave]_vars


----------------------------------------------------------------------------
(* SpecBundle: capture_failure_bundle step by step (failure_bundle.py) *)

\* BundleVerbosity
Verbosities == {"off", "minimal", "standard", "full"}

\* The capture steps in the order of the code, each inside its own try.
BundleSteps == <<"tap", "url", "title", "snippet", "screenshot", "extras">>

\* failure_bundle.py:82 and 97: which steps the verbosity and screenshot_dir let run.
StepEnabled(step, c) ==
    CASE step \in {"url", "title", "snippet"} -> c.verbosity \in {"standard", "full"}
      [] step = "screenshot" -> c.verbosity = "full" /\ c.screenshot_dir # ""
      [] OTHER -> TRUE

\* The first enabled step from position i on, or the return.
RECURSIVE StepFrom(_, _)
StepFrom(i, c) ==
    IF i > Len(BundleSteps) THEN "return"
    ELSE IF StepEnabled(BundleSteps[i], c) THEN BundleSteps[i]
    ELSE StepFrom(i + 1, c)

StepIndex(step) == CHOOSE i \in DOMAIN BundleSteps : BundleSteps[i] = step

\* (mutant) one try block around all the steps: a failing step ends the capture
AfterStepAbort(step, failed, c) ==
    IF failed THEN "return" ELSE StepFrom(StepIndex(step) + 1, c)

\* failure_bundle.py:79-80, 85-86, 89-90, 94-95, 105-106, 114-115: every step
\* swallows its exception, so what follows a step does not depend on whether it
\* failed.
AfterStep(step, failed, c) == StepFrom(StepIndex(step) + 1, c)

\* failure_bundle.py:23-41 and 61-69: the bundle as constructed.
NewBundle(c) ==
    [note_id |-> c.note_id, reason |-> c.reason, site |-> c.site,
     page_url |-> "", page_title |-> "", page_text_snippet |-> "",
     tap_has_feed |-> FALSE, tap_has_comments |-> FALSE, tap_feed_keys |-> {},
     tap_comment_count |-> 0, adapter_extras |-> "", screenshot_path |-> ""]

\* What the calls of a step gave: raised says a call of the step raised; the
\* other fields are the values returned (feed None, and url "none" for a None).
NoGot == [raised |-> FALSE, feed |-> None, comments |-> <<>>, text |-> ""]

\* failure_bundle.py:73-78: the tap fields from the feed and the comments read.
TapFields(b, feed, comments) ==
    [b EXCEPT !.tap_has_feed = feed # None,
              !.tap_has_comments = Len(comments) > 0,
              !.tap_feed_keys = IF feed # None THEN DOMAIN feed ELSE {},
              !.tap_comment_count = Len(comments)]

\* `value or ""`
OrEmpty(text) == IF text = "none" THEN "" ELSE text

\* What the step writes into the bundle from what its calls returned.
StepFields(b, step, got) ==
    CASE step = "tap" -> TapFields(b, got.feed, got.comments)
      [] step = "url" -> [b EXCEPT !.page_url = OrEmpty(got.text)]
      [] step = "title" -> [b EXCEPT !.page_title = OrEmpty(got.text)]
      [] step = "snippet" -> [b EXCEPT !.page_text_snippet = OrEmpty(got.text)]
      [] step = "screenshot" -> [b EXCEPT !.screenshot_path = got.text]
      [] step = "extras" ->
            IF got.text = "dict" THEN [b EXCEPT !.adapter_extras = got.text] ELSE b

\* What the calls of a step can give. Without a tap the reads are skipped; an
\* adapter without get_failure_diagnostics is not called.
StepResults(step, c) ==
    CASE step = "tap" ->
            IF c.has_tap
            THEN {[NoGot EXCEPT !.raised = TRUE]} \cup
                 {[NoGot EXCEPT !.feed = f, !.comments = cm] :
                     f \in {None, FeedPayload("A", "text", Now * 1000)},
                     cm \in {<<>>, <<1, 2>>}}
            ELSE {NoGot}
      [] step \in {"url", "title", "snippet"} ->
            {[NoGot EXCEPT !.raised = TRUE]} \cup
            {[NoGot EXCEPT !.text = t] : t \in {"none", "seen"}}
      [] step = "screenshot" ->
            {[NoGot EXCEPT !.raised = TRUE], [NoGot EXCEPT !.text = "fail.png"]}
      [] step = "extras" ->
            IF c.has_diagnostics
            THEN {[NoGot EXCEPT !.raised = TRUE]} \cup
                 {[NoGot EXCEPT !.text = t] : t \in {"dict", "none"}}
            ELSE {[NoGot EXCEPT !.text = "absent"]}

BundleInputs ==
    [verbosity : Verbosities, screenshot_dir : {"", "shots"}, has_tap : BOOLEAN,
     has_diagnostics : BOOLEAN, note_id : {"A", "a/b"},
     reason : {"exception", "link_not_found"}, site : {"unknown", "xhs"}]

bundleFrame == <<pureFrame, cfg, events, fetch_cards, all_posts, session_seen>>

InitBundle ==
    /\ InitPureFrame
    /\ pc = "call"
    /\ cfg \in BundleInputs
    /\ att = NewBundle(cfg)
    /\ hist = [got |-> [s \in {} |-> NoGot]]
    /\ events = <<>>
    /\ fetch_cards = <<>>
    /\ all_posts = <<>>
    /\ session_seen = {}

\* failure_bundle.py:61-69: the bundle is constructed.
BundleCall ==
    /\ pc = "call"
    /\ pc' = StepFrom(1, cfg)
    /\ UNCHANGED <<bundleFrame, att, hist>>

\* One capture step: its calls return or one of them raises; on a raise the
\* except clause passes and the bundle keeps what it had.
BundleStep ==
    /\ pc \in {BundleSteps[i] : i \in DOMAIN BundleSteps}
    /\ \E got \in StepResults(pc, cfg) :
        /\ att' = IF got.raised THEN att ELSE StepFields(att, pc, got)
        /\ hist' = [hist EXCEPT !.got = [s \in DOMAIN @ \cup {pc} |->
                                           IF s = pc THEN got ELSE @[s]]]
        /\ pc' = AfterStep(pc, got.raised, cfg)
    /\ UNCHANGED bundleFrame

\* failure_bundle.py:117
BundleReturn ==
    /\ pc = "return"
    /\ pc' = "returned"
    /\ UNCHANGED <<bundleFrame, att, hist>>

SpecBundle == InitBundle /\ [][BundleCall \/ BundleStep \/ BundleReturn]_vars


----------------------------------------------------------------------------
(* hybrid.py:90-142: the extraction and the merge of one detail attempt, field
   by field. A dict is a function from its keys to their values; every value
   is a string but top_comments, a sequence of comments. *)

\* Marks, in a choice of values, a key the dict does not have.
Absent == "<absent>"

DictOf(r) == [k \in {f \in DOMAIN r : r[f] # Absent} |-> r[k]]

\* d.get(k, default)
FieldGet(d, k, default) == IF k \in DOMAIN d THEN d[k] ELSE default

\* bool(d.get(k)) for string values
FieldTrue(d, k) == k \in DOMAIN d /\ d[k] # ""

\* d[k] = v
FieldSet(d, k, v) == [f \in DOMAIN d \cup {k} |-> IF f = k THEN v ELSE d[f]]

\* seq[:n] for n >= 0
Cut(seq, n) == SubSeq(seq, 1, IF Len(seq) < n THEN Len(seq) ELSE n)

\* api_comments or dom_comments
OrElse(first, second) == IF first # <<>> THEN first ELSE second

\* (mutant) the document's engagement value is taken whenever it has one
FillEngagementAlways(post, dom_data, field) ==
    IF FieldTrue(dom_data, field)
    THEN FieldSet(post, field, dom_data[field])
    ELSE post

\* hybrid.py:112-114: `if post.get(field) in ("0", "", None) and
\* dom_data.get(field): post[field] = dom_data[field]`
FillEngagement(post, dom_data, field) ==
    IF (field \notin DOMAIN post \/ post[field] \in {"0", ""}) /\ FieldTrue(dom_data, field)
    THEN FieldSet(post, field, dom_data[field])
    ELSE post

\* hybrid.py:105-107: post = dict(feed), and the content fallback
FillContent(feed, dom_data) ==
    IF ~FieldTrue(feed, "content") /\ FieldTrue(dom_data, "content")
    THEN FieldSet(feed, "content", dom_data["content"])
    ELSE feed

\* hybrid.py:109-110: the screenshot path is kept when the feed has no cover
FillScreenshot(post, screenshot_path) ==
    IF ~FieldTrue(post, "cover_url")
    THEN FieldSet(post, "screenshot", screenshot_path)
    ELSE post

\* hybrid.py:105-115: the Record of an attempt whose tap feed is `feed`
MergeFeed(feed, api_comments, dom_data, dom_comments, screenshot_path, max_comments) ==
    FieldSet(
        FillEngagement(
            FillEngagement(
                FillEngagement(
                    FillScreenshot(
                        FieldSet(FillContent(feed, dom_data), "top_comments",
                                 Cut(OrElse(api_comments, dom_comments), max_comments)),
                        screenshot_path),
                    dom_data, "likes"),
                dom_data, "comments"),
            dom_data, "collects"),
        "_data_source", "passive_api")

\* `a or b` for two strings
StrOr(a, b) == IF a # "" THEN a ELSE b

\* hybrid.py:120-140: the Record built from the document alone (the keys the
\* card and the document both feed, and those the outcome is judged by)
MergeDom(card, api_comments, dom_data, dom_comments, screenshot_path, max_comments, detail_loaded) ==
    [k \in {"note_id", "title", "content", "likes", "comments", "collects",
            "top_comments", "screenshot", "_data_source"}
           \cup (IF FieldGet(dom_data, "content", "") = ""
                 THEN {"card_only", "card_only_reason"} ELSE {}) |->
        CASE k = "note_id" -> card["note_id"]
          [] k = "title" -> StrOr(FieldGet(card, "title", ""), FieldGet(dom_data, "title", ""))
          [] k = "content" -> FieldGet(dom_data, "content", "")
          [] k = "likes" -> StrOr(FieldGet(dom_data, "likes", ""),
                                  FieldGet(card, "likes_from_card", "0"))
          [] k = "comments" -> FieldGet(dom_data, "comments", "0")
          [] k = "collects" -> FieldGet(dom_data, "collects", "0")
          [] k = "top_comments" -> Cut(OrElse(api_comments, dom_comments), max_comments)
          [] k = "screenshot" -> screenshot_path
          [] k = "_data_source" -> "dom_fallback"
          [] k = "card_only" -> "True"
          [] OTHER -> IF detail_loaded THEN "empty_content" ELSE "modal_timeout"]

\* What the tap gave for the candidate: nothing, or a parsed feed.
MergeFeeds ==
    {None} \cup
    {DictOf(r) : r \in [note_id : {"A"}, title : {"api title"},
                        content : {Absent, "", "api text"},
                        likes : {Absent, "", "0", "5"},
                        comments : {"0", "3"},
                        collects : {Absent, "1"},
                        cover_url : {Absent, "cover"}]}

\* What adapter.extract_detail returned.
MergeDomData ==
    {DictOf(r) : r \in [title : {"dom title"},
                        content : {Absent, "", "dom text"},
                        likes : {Absent, "", "9"},
                        comments : {"8"},
                        collects : {Absent, "0"}]}

MergeCard == [note_id |-> "A", title |-> "", likes_from_card |-> "2"]

mergeFrame == <<pureFrame, cfg, events, fetch_cards, all_posts, session_seen>>

\* The attempt has read the tap (hybrid.py:74-88) and is about to extract.
\* page_comments is what adapter.extract_comments would return if asked.
InitMerge ==
    /\ InitPureFrame
    /\ pc = "extract"
    /\ cfg \in [feed : MergeFeeds, api_comments : {<<>>, <<1>>, <<1, 2, 3>>},
                page_comments : {<<>>, <<4, 5, 6>>}, max_comments : {0, 2},
                detail_loaded : BOOLEAN]
    /\ att = [dom_data |-> None, dom_comments |-> <<>>, post |-> None]
    /\ hist = [extract_comments_calls |-> 0]
    /\ events = <<>>
    /\ fetch_cards = <<>>
    /\ all_posts = <<>>
    /\ session_seen = {}

\* hybrid.py:91-101: extract_detail; extract_comments when the tap gave no
\* comments, else []; take_screenshot; close_detail.
MergeExtract ==
    /\ pc = "extract"
    /\ \E dom_data \in MergeDomData :
        att' = [att EXCEPT !.dom_data = dom_data,
                           !.dom_comments = IF cfg.api_comments = <<>>
                                            THEN cfg.page_comments ELSE <<>>]
    /\ hist' = [hist EXCEPT !.extract_comments_calls =
                                IF cfg.api_comments = <<>> THEN @ + 1 ELSE @]
    /\ pc' = "merge"
    /\ UNCHANGED mergeFrame

\* hybrid.py:103-142: the merge, and the return.
MergeReturn ==
    /\ pc = "merge"
    /\ att' = [att EXCEPT !.post =
                  IF cfg.feed # None
                  THEN MergeFeed(cfg.feed, cfg.api_comments, att.dom_data,
                                 att.dom_comments, "shot.png", cfg.max_comments)
                  ELSE MergeDom(MergeCard, cfg.api_comments, att.dom_data,
                                att.dom_comments, "shot.png", cfg.max_comments,
                                cfg.detail_loaded)]
    /\ pc' = "returned"
    /\ UNCHANGED <<mergeFrame, hist>>

SpecMerge == InitMerge /\ [][MergeExtract \/ MergeReturn]_vars

----------------------------------------------------------------------------
(* Claims about a run *)

\* C1: no exception raised by an adapter call made during a candidate's detail
\* attempt escapes the attempt (the attempt yields a card-only Record and the
\* run goes on to the next candidate): no exception that leaves the run was
\* raised inside a detail attempt.
C1_NoEscape == hist.escaped # "attempt"

\* C2: every Record of the output has the note_id of the Candidate it was
\* produced for, on every path.
C2_SameIdentity ==
    \A i \in DOMAIN all_posts : all_posts[i].note_id = all_posts[i].for_card

\* The positions of the run inside _fetch_post_detail_hybrid's try block.
InAttempt == pc \in {"open", "captcha", "wait", "poll", "poll_comments", "extract"}

\* C3: an attempt for X starts with the tap holding nothing for X, so whatever
\* the tap holds for X during the attempt, and whatever tap data the attempt
\* reads or a Record was merged from, was captured after the attempt began.
C3_NoStaleTapData ==
    /\ InAttempt /\ att.card.note_id \in Held(feed_data, comment_data)
            => cap_first[att.card.note_id] > att.start
    /\ att.tap # "stale"
    /\ att.post # NoPost => att.post.tap # "stale"
    /\ \A i \in DOMAIN all_posts : all_posts[i].tap # "stale"

\* An attempt that began by clearing data the tap held for its candidate has
\* merged a feed captured after it began.
C3_Witness ==
    /\ pc = "classify"
    /\ hist.stale_cleared
    /\ att.post.data_source = "passive_api"
    /\ att.post.tap = "fresh"
    /\ \A i \in DOMAIN all_posts : all_posts[i].for_card # att.card.note_id

\* C4: on every exit from a run the tap's listener has been detached exactly
\* once and the tap is not listening; before the exit it is detached at most once.
C4_DetachedOnce ==
    /\ hist.detach_calls <= 1
    /\ pc \in {"done", "raised"} =>
            /\ hist.detach_calls = 1
            /\ ~listening
            /\ page_listeners = 0

\* The run was left by an exception raised in the loop body, after responses
\* had been delivered to the listener.
C4_Witness ==
    /\ pc = "raised"
    /\ hist.escaped = "extract_cards"
    /\ clock > 0
    /\ hist.detach_calls = 1

\* C5: when a check point finds should_stop true and the item limit reached,
\* the run stops with stop reason health_stop.
C5_HealthStopFirst ==
    pc = "done" /\ hist.both_at_check => stop_reason = "health_stop"

\* C6: once a check finds the item limit reached the run ends: no candidate is
\* attempted, no listing page is extracted or scrolled after that, and the
\* reported stop reason is max_posts.
C6_LimitEndsRun ==
    hist.limit_hit =>
        /\ hist.after_limit = "none"
        /\ pc = "done" => stop_reason = "max_posts"

\* The outcome C7 describes: two Records, A's with passive provenance, B's with
\* fallback provenance and card-only exactly when its content is empty.
C7_Outcome ==
    /\ Len(all_posts) = 2
    /\ all_posts[1].for_card = "A"
    /\ all_posts[1].data_source = "passive_api"
    /\ all_posts[2].for_card = "B"
    /\ all_posts[2].data_source = "dom_fallback"
    /\ all_posts[2].card_only <=> all_posts[2].content = ""

----------------------------------------------------------------------------
(* Claims about the tap *)

\* C8: after any sequence of intercepted responses and clear() calls, the feed
\* buffer and the comments buffer each hold at most _MAX_BUFFER_SIZE identities.
C8_BuffersBounded ==
    /\ Len(feed_data) <= MAX_BUFFER_SIZE
    /\ Len(comment_data) <= MAX_BUFFER_SIZE
    /\ Cardinality(DictKeys(feed_data)) = Len(feed_data)
    /\ Cardinality(DictKeys(comment_data)) = Len(comment_data)

\* Both buffers are full right after an insertion that had to evict.
C8_Witness ==
    /\ last_evict.buffer # "none"
    /\ Len(feed_data) = MAX_BUFFER_SIZE
    /\ Len(comment_data) = MAX_BUFFER_SIZE

\* C9: whenever inserting into a full buffer evicts, exactly one entry is
\* evicted and no entry left in that buffer is older than it, after any sequence
\* of feed responses, comment responses and clear() calls. "Older" is taken in
\* the weakest sense: all the data held for the entry left behind was captured
\* before any data held for the evicted one.
C9_EvictsOldest ==
    last_evict.buffer # "none" =>
        /\ Cardinality(last_evict.evicted) = 1
        /\ ~last_evict.older_left

\* C10: after any sequence of start() and stop() calls at most one listener of
\* the tap is attached; start() while listening and stop() while not listening
\* make no call on the page; after any stop() no listener remains attached.
C10_OneListener ==
    /\ page_listeners <= 1
    /\ listening <=> (page_listeners = 1)
    /\ (tap_op.op = "start" /\ tap_op.was_listening) => ~tap_op.page_called
    /\ (tap_op.op = "stop" /\ ~tap_op.was_listening) => ~tap_op.page_called
    /\ tap_op.op = "stop" => page_listeners = 0

\* start() was called on a tap that was already listening.
C10_Witness ==
    /\ tap_op.op = "start"
    /\ tap_op.was_listening
    /\ page_listeners = 1

----------------------------------------------------------------------------
(* Claims about wait_for *)

\* The returned WaitResult carries every requested item.
ResultComplete ==
    /\ att.need_feed => att.feed # None
    /\ att.need_comments => att.comments # <<>>

\* C11: wait_for yields only after a poll that found a requested item missing,
\* so it returns at the first poll that finds them all; a result with
\* timed_out = False carries every requested item (it is not returned while
\* only one of two is there); and a call made when the conditions already hold
\* returns without any yield.
C11_ReturnsAtFirstCompletePoll ==
    /\ pc = "yield" => ~ResultComplete
    /\ pc = "returned" /\ ~att.timed_out => ResultComplete
    /\ pc = "returned" /\ hist.held_at_call => hist.yields = 0
    /\ pc = "returned" /\ hist.held_at_call /\ hist.yields = 0 /\ att.deadline > clock
            => ~att.timed_out

\* Both items were requested, the call yielded, a wanted response arrived
\* during the last yield, and the next poll returned them.
C11_Witness ==
    /\ pc = "returned"
    /\ ~att.timed_out
    /\ att.need_feed /\ att.need_comments
    /\ ~hist.held_at_call
    /\ hist.yields >= 1
    /\ hist.late

\* C12 as stated: a timed-out result carries whatever feed and comments the
\* buffers hold for the identity at the final check.
C12_CarriesBuffers ==
    pc = "returned" /\ att.timed_out =>
        /\ att.feed = GetFeed(att.note_id)
        /\ att.comments = GetComments(att.note_id)

\* C12, amended: wait_for always returns, and a timed-out result carries, of
\* the items that were requested, what the buffers hold at the final check
\* (so a response delivered during the last yield is included); an item that
\* was not requested is returned as None / empty whatever the buffers hold.
C12_CarriesRequested ==
    /\ pc \in {"idle", "loop", "yield", "final", "returned"}
    /\ pc = "returned" /\ att.timed_out =>
        /\ att.feed = IF att.need_feed THEN GetFeed(att.note_id) ELSE None
        /\ att.comments = IF att.need_comments THEN GetComments(att.note_id) ELSE <<>>

\* The call timed out with a feed that arrived during its last yield.
C12_Witness ==
    /\ pc = "returned"
    /\ att.timed_out
    /\ att.need_feed
    /\ hist.late
    /\ att.feed # None
    /\ ~hist.held_at_call

----------------------------------------------------------------------------
(* Claims about the health monitor *)

\* A score in [0, 1]
ScoreInUnit(s) ==
    /\ s.b >= 1
    /\ s.q > 0 \/ (s.q = 0 /\ s.e >= 0)
    /\ s.q < 10 * s.b \/ (s.q = 10 * s.b /\ s.e <= 0)

\* C13: after any sequence of record() calls, with any tags and any window capacity
\* of at least 1, the score lies in [0, 1]; before the first record() the score is
\* 1.0 and neither should_stop nor should_backoff holds.
C13_ScoreInUnit ==
    pc = "health" =>
        /\ ScoreInUnit(Score(events))
        /\ hist.log = <<>> =>
            /\ Score(events) = ScoreOne
            /\ ~ShouldStop(events)
            /\ ~ShouldBackoff(events)

\* C13: a full window of capacity 3 that holds an unknown tag and scores below 0.6.
C13_Witness ==
    /\ pc = "health"
    /\ cfg.window = 3
    /\ Len(hist.log) > 3
    /\ \E i \in DOMAIN events : events[i] = "other"
    /\ ShouldBackoff(events)

\* The last min(Len(log), window) tags of log
Recent(log, window) ==
    SubSeq(log, (IF Len(log) > window THEN Len(log) - window ELSE 0) + 1, Len(log))

\* C14 as stated: once 3 auth_expired events have been recorded should_stop holds,
\* whatever else is recorded before, between or after them.
C14_StopAfterThreeAuth ==
    pc = "health" /\ CountEvent(hist.log, "auth_expired") >= 3 => ShouldStop(events)

\* C14, amended: should_stop holds while 3 recorded auth_expired events are among
\* the last `window` events recorded.
C14_StopWhileInWindow ==
    pc = "health" /\ CountEvent(Recent(hist.log, cfg.window), "auth_expired") >= 3
        => ShouldStop(events)

\* C14: 3 auth_expired among other events, in a window that scores 0.3 or more.
C14_Witness ==
    /\ pc = "health"
    /\ CountEvent(events, "auth_expired") = 3
    /\ events[1] = "ok"
    /\ events[Len(events)] = "ok"
    /\ ~ScoreBelow(events, 3)

\* C15: after n record() calls on a window of capacity w the window holds the
\* min(n, w) most recently recorded events, in recording order.
C15_WindowIsRecent ==
    pc = "health" =>
        /\ Len(events) = (IF Len(hist.log) < cfg.window THEN Len(hist.log) ELSE cfg.window)
        /\ events = Recent(hist.log, cfg.window)

\* C15: more events recorded than a window of capacity 2 or more holds.
C15_Witness ==
    /\ pc = "health"
    /\ cfg.window \in 2..4
    /\ Len(hist.log) > cfg.window
    /\ events[1] # hist.log[1]

\* The reference value of the score is below tenths/10, in exact arithmetic.
RefScoreBelow(evs, tenths) ==
    /\ evs # <<>>
    /\ 10 * (TotalWeight(evs).q + TotalPossible10(evs)) < tenths * 2 * TotalPossible10(evs)

\* C16: for every window content should_stop holds exactly when the window holds 3
\* or more auth_expired or the reference score is below 0.3, and should_backoff
\* exactly when the reference score is below 0.6.
C16_MatchesReference ==
    pc = "health" =>
        /\ ShouldStop(events) <=>
            (CountEvent(events, "auth_expired") >= 3 \/ RefScoreBelow(events, 3))
        /\ ShouldBackoff(events) <=> RefScoreBelow(events, 6)

----------------------------------------------------------------------------
(* Claims about should_refetch and filter_cards *)

\* C17: should_refetch returns (true, false) for an identity absent from the
\* history; (false, false) for a present identity whose stored likes are 0, whatever
\* the new likes; (true, true) for a present identity with a non-zero baseline when
\* new likes >= 2 x old likes or new - old >= 50; (false, false) otherwise.
C17_RefetchTable ==
    pc = "refetched" =>
        LET nid == att.card.note_id
            seen == cfg.seen_data
            new == att.card.likes
        IN  /\ nid \notin DOMAIN seen => att.result = <<TRUE, FALSE>>
            /\ nid \in DOMAIN seen /\ seen[nid] = 0 => att.result = <<FALSE, FALSE>>
            /\ nid \in DOMAIN seen /\ seen[nid] # 0
                    /\ (new >= 2 * seen[nid] \/ new - seen[nid] >= 50)
                => att.result = <<TRUE, TRUE>>
            /\ nid \in DOMAIN seen /\ seen[nid] # 0
                    /\ ~(new >= 2 * seen[nid] \/ new - seen[nid] >= 50)
                => att.result = <<FALSE, FALSE>>

\* C17: a present identity whose likes rose by 50 but did not double.
C17_Witness ==
    /\ pc = "refetched"
    /\ att.card.note_id \in DOMAIN cfg.seen_data
    /\ cfg.seen_data[att.card.note_id] = 100
    /\ att.card.likes = 150
    /\ att.result = <<TRUE, TRUE>>

\* The sequence t is s with one more card, of identity nid.
GrewBy(s, t, nid) ==
    /\ Len(t) = Len(s) + 1
    /\ SubSeq(t, 1, Len(s)) = s
    /\ t[Len(t)].note_id = nid

\* C18: filter_cards partitions the page. Each candidate with a non-empty identity
\* that is not in the session set when the loop reaches it goes to exactly one of
\* to-fetch and skipped; a candidate without identity or already in the session set
\* goes to neither; the skip count is the length of the skipped list; without a
\* history nothing is skipped; the identity of a skipped candidate, and of no
\* to-fetch candidate, is added to the session set.
C18_Partition ==
    [][pc' = "filter" =>
        LET nid == hist.cards[att'.i].note_id
            old == att.st
            new == att'.st
            fetched == GrewBy(old.fetch, new.fetch, nid) /\ new.skipped = old.skipped
            skipped == GrewBy(old.skipped, new.skipped, nid) /\ new.fetch = old.fetch
        IN  /\ new.n_skipped = Len(new.skipped)
            /\ IF nid # NoId /\ nid \notin old.session_seen
               THEN /\ fetched \/ skipped
                    /\ ~(fetched /\ skipped)
                    /\ cfg.seen_data = NoSeen => fetched
                    /\ fetched => new.session_seen = old.session_seen
                    /\ skipped => new.session_seen = old.session_seen \cup {nid}
               ELSE /\ new.fetch = old.fetch
                    /\ new.skipped = old.skipped
                    /\ new.session_seen = old.session_seen]_vars

\* C18: a page whose first candidate was skipped and whose second, of the same
\* identity, was then left out.
C18_Witness ==
    /\ pc = "returned"
    /\ Len(hist.cards) = 2
    /\ hist.cards[1].note_id = hist.cards[2].note_id
    /\ hist.cards[1].note_id \notin hist.session_seen
    /\ Len(att.st.skipped) = 1
    /\ att.st.fetch = <<>>
    /\ att.st.session_seen = hist.session_seen \cup {hist.cards[1].note_id}

----------------------------------------------------------------------------
(* Claims about counting *)

\* The Record at i is not card-only and its instant is unknown or within the last
\* `days` days.
CountsForGrind(i, days) ==
    /\ ~all_posts[i].card_only
    /\ \/ hist.stamps[i].unit = "unknown"
       \/ /\ hist.stamps[i].at >= (Now - days) * 1000
          /\ hist.stamps[i].at <= Now * 1000

\* C19: fetch_count is the number of Records that are not card-only with a reason
\* in {seen, skipped}; grind_count is the number of Records that are not card-only
\* and whose timestamp is unknown or within the last max_age_days days, a
\* timestamp in milliseconds being read as seconds.
C19_Counts ==
    /\ pc = "counted" /\ att.fn = "fetch_count" =>
        att.n = Len(all_posts)
                - Cardinality({i \in DOMAIN all_posts :
                                  /\ all_posts[i].card_only
                                  /\ all_posts[i].reason \in {"seen", "skipped"}})
    /\ pc = "counted" /\ att.fn = "grind_count" =>
        att.n = Cardinality({i \in DOMAIN all_posts : CountsForGrind(i, cfg.max_age_days)})

\* C19: grind_count counted one of two Records stamped in milliseconds, the other
\* being just older than the window.
C19_Witness ==
    /\ pc = "counted"
    /\ att.fn = "grind_count"
    /\ att.n = 1
    /\ Len(all_posts) = 2
    /\ \A i \in DOMAIN all_posts : ~all_posts[i].card_only /\ hist.stamps[i].unit = "ms"
    /\ \E i \in DOMAIN all_posts : hist.stamps[i].at = (Now - cfg.max_age_days) * 1000 - 1

----------------------------------------------------------------------------
(* Claims about the history file *)

\* C20: saving a history and loading it back gives, for every identity saved, the
\* likes, comments and timestamp saved, and no identity that was not saved.
C20_RoundTrip ==
    pc = "loaded" /\ hist.saved =>
        /\ DOMAIN att.loaded = DOMAIN cfg.seen_data
        /\ \A nid \in DOMAIN cfg.seen_data :
            /\ att.loaded[nid].likes = cfg.seen_data[nid].likes
            /\ att.loaded[nid].comments = cfg.seen_data[nid].comments
            /\ att.loaded[nid].ts = cfg.seen_data[nid].ts

\* C20: a history of two identities, one with likes and a timestamp, saved over a
\* file in the old format and loaded back.
C20_Witness ==
    /\ pc = "loaded"
    /\ hist.saved
    /\ DOMAIN att.loaded = {"A", "B"}
    /\ att.loaded["A"].likes = 10
    /\ att.loaded["A"].ts # ""
    /\ att.loaded["B"].ts = ""

----------------------------------------------------------------------------
(* Claims about saving the history file (specification SpecSave) *)

\* C21: at every step of a save, and so whenever the process crashes, the
\* history file holds the complete previous content or the complete new
\* content, never a beginning of the text or nothing; a save that raised left
\* the previous file in place; what is loaded afterwards is one of the two
\* histories.
C21_OldOrNew ==
    /\ att.file \in {hist.prev, SaveSeen(cfg.seen_data)}
    /\ (pc = "raised" \/ hist.raised # "none") => att.file = hist.prev
    /\ pc = "loaded" =>
          att.loaded \in {LoadSeen(hist.prev), LoadSeen(SaveSeen(cfg.seen_data))}

\* a crash while the temporary file holds a beginning of the new text, with a
\* previous file that differs from the new content, and the file loaded after
C21_Witness ==
    /\ pc = "loaded"
    /\ hist.at = "dump"
    /\ att.tmp = PartialFile
    /\ hist.prev.kind = "object"
    /\ hist.prev # SaveSeen(cfg.seen_data)
    /\ att.loaded = LoadSeen(hist.prev)

----------------------------------------------------------------------------
(* Claims about capture_failure_bundle (specification SpecBundle) *)

\* The steps the arguments let run.
EnabledSteps(c) == {BundleSteps[i] : i \in {j \in DOMAIN BundleSteps : StepEnabled(BundleSteps[j], c)}}

\* The fields of the bundle each step is there to fill.
StepFieldNames(step) ==
    CASE step = "tap" -> {"tap_has_feed", "tap_has_comments", "tap_feed_keys",
                          "tap_comment_count"}
      [] step = "url" -> {"page_url"}
      [] step = "title" -> {"page_title"}
      [] step = "snippet" -> {"page_text_snippet"}
      [] step = "screenshot" -> {"screenshot_path"}
      [] step = "extras" -> {"adapter_extras"}

\* The bundle that the given results of the steps should produce: each step
\* that ran without raising contributes its fields, the others leave defaults.
RECURSIVE ExpectedBundle(_, _, _)
ExpectedBundle(b, i, got) ==
    IF i > Len(BundleSteps) THEN b
    ELSE LET s == BundleSteps[i]
         IN  ExpectedBundle(IF s \in DOMAIN got /\ ~got[s].raised
                            THEN StepFields(b, s, got[s]) ELSE b,
                            i + 1, got)

\* C22: the capture always comes to its return (no step's failure ends it), and
\* the bundle returned carries the given identity and reason; every step the
\* arguments enable has run, whichever steps failed before it; a step that
\* failed left its own fields at their defaults and the fields of the other
\* steps are what those steps captured.
C22_BestEffort ==
    /\ att.note_id = cfg.note_id
    /\ att.reason = cfg.reason
    /\ pc \in {"return", "returned"} =>
          /\ DOMAIN hist.got = EnabledSteps(cfg)
          /\ att = ExpectedBundle(NewBundle(cfg), 1, hist.got)
          /\ \A s \in DOMAIN hist.got :
                hist.got[s].raised =>
                    \A f \in StepFieldNames(s) : att[f] = NewBundle(cfg)[f]

\* the tap reads and the title failed, and the URL, the text, the screenshot
\* and the adapter's extras were still captured
C22_Witness ==
    /\ pc = "returned"
    /\ DOMAIN hist.got = {BundleSteps[i] : i \in DOMAIN BundleSteps}
    /\ hist.got["tap"].raised
    /\ hist.got["title"].raised
    /\ att.page_url = "seen"
    /\ att.page_title = ""
    /\ att.page_text_snippet = "seen"
    /\ att.screenshot_path = "fail.png"
    /\ att.adapter_extras = "dict"
    /\ ~att.tap_has_feed

----------------------------------------------------------------------------
(* Claims about the page loop and the classification of outcomes *)

\* C23: every run comes to its end, by returning or by an exception leaving
\* it; extract_cards has returned at most max_pages listings then (3 x
\* max_pages in grind mode), whatever they held; and a run that returned
\* without any stop condition having fired went through its whole page budget
\* and reports max_pages.
C23_EndsWithinBudget ==
    /\ [](hist.extracts <= (IF cfg.grind THEN 3 * cfg.max_pages ELSE cfg.max_pages))
    /\ []((pc = "done" /\ hist.stops = {}) =>
            /\ stop_reason = "max_pages"
            /\ hist.extracts = (IF cfg.grind THEN 3 * cfg.max_pages ELSE cfg.max_pages))
    /\ <>(pc \in {"done", "raised"})

\* a grind run that extracted three listings on a budget of one, attempted
\* six candidates, and returned with none of the other stop conditions having
\* fired
C23_Witness ==
    /\ pc = "done"
    /\ cfg.grind
    /\ hist.extracts = 3
    /\ Len(all_posts) = 6
    /\ hist.stops = {}
    /\ stop_reason = "max_pages"

\* C24: while a detail attempt polls the tap (for the feed, then for the
\* comments) the run is at a point where the page dispatches its events, so
\* that a response arriving during the wait reaches the tap before a later
\* poll.
C24_YieldsWhilePolling ==
    pc \in {"poll", "poll_comments"} => Yielding

\* What a step that handled a candidate (idx advanced) appended to the output.
LastPost == all_posts'[Len(all_posts')]

\* The health window after tag was recorded for the candidate, and after the
\* event of the 5-consecutive-failures check, if it ran, was recorded too.
RecordedFor(tag) ==
    {HealthRecord(events, tag)} \cup
    {HealthRecord(HealthRecord(events, tag), x) : x \in {"auth_expired", "empty"}}

\* C25 without its last part: the streak counts the attempts classified
\* captcha since the last attempt classified otherwise, the mode is on exactly
\* when the streak has reached 2, and while it is on no detail attempt is
\* made.
CaptchaStreak ==
    /\ consecutive_captchas' = IF pc # "classify" THEN consecutive_captchas
                               ELSE IF att.is_captcha THEN consecutive_captchas + 1
                               ELSE 0
    /\ captcha_mode' <=> consecutive_captchas' >= 2
    /\ captcha_mode => pc' # "classify"

\* C25 as stated: ... and every candidate handled while the mode is on yields
\* a card-only Record with reason captcha and a captcha health event.
C25_CaptchaMode ==
    [][/\ CaptchaStreak
       /\ (captcha_mode /\ idx' = idx + 1) =>
            /\ Len(all_posts') = Len(all_posts) + 1
            /\ LastPost.card_only /\ LastPost.reason = "captcha"
            /\ events' \in RecordedFor("captcha")]_vars

\* C25, amended: ... every candidate not marked _skip_detail that is handled
\* while the mode is on yields a card-only Record with reason captcha and a
\* captcha health event; a candidate marked _skip_detail yields a card-only
\* Record with reason skipped and no captcha event.
C25_CaptchaModeUnlessMarked ==
    [][/\ CaptchaStreak
       /\ (captcha_mode /\ idx' = idx + 1) =>
            /\ Len(all_posts') = Len(all_posts) + 1
            /\ LastPost.card_only
            /\ IF CurCard.skip_detail
               THEN /\ LastPost.reason = "skipped"
                    /\ events' \in {events, HealthRecord(events, "auth_expired"),
                                    HealthRecord(events, "empty")}
               ELSE /\ LastPost.reason = "captcha"
                    /\ events' \in RecordedFor("captcha")]_vars

\* after two attempts classified ok, two classified captcha turned the mode on,
\* and the next two candidates, the second of them marked _skip_detail, got
\* their Records without an attempt
C25_Witness ==
    /\ captcha_mode
    /\ Len(all_posts) = 6
    /\ all_posts[2].data_source = "passive_api"
    /\ all_posts[3].reason = "captcha"
    /\ all_posts[4].reason = "captcha"
    /\ all_posts[5].reason = "captcha"
    /\ all_posts[6].reason = "skipped"
    /\ CountEvent(events, "captcha") = 3

\* The classification recorded ok for the attempt.
OkRecorded == pc = "classify" /\ events' = HealthRecord(events, "ok")

Handled == Len(all_posts') = Len(all_posts) + 1

\* The attempt being classified gave no content and is not a captcha.
EmptyClassified ==
    /\ pc = "classify"
    /\ ~att.is_captcha
    /\ att.post.content = "" /\ att.post.data_source # "passive_api"

\* The health events the step recorded for the candidate itself: none for a
\* candidate marked _skip_detail, else one.
OwnEvents == IF pc = "cand" /\ CurCard.skip_detail THEN 0 ELSE 1

----------------------------------------------------------------------------
(* Claims about the merge of one attempt (specification SpecMerge) *)

\* The value the claim gives an engagement key of the merged Record: the
\* document's when the tap's is "0", empty or absent and the document has a
\* non-empty one, else the tap's.
TapOrDocument(field) ==
    IF (field \notin DOMAIN cfg.feed \/ cfg.feed[field] = "0" \/ cfg.feed[field] = "")
       /\ field \in DOMAIN att.dom_data /\ att.dom_data[field] # ""
    THEN <<TRUE, att.dom_data[field]>>
    ELSE <<field \in DOMAIN cfg.feed, FieldGet(cfg.feed, field, "")>>

\* C28: with a tap feed, the returned Record has the payload's keys and
\* values, except: content is the document's when the payload's is empty or
\* absent and the document's is not; likes, comments and collects are the
\* document's when the payload's is "0", empty or absent and the document's is
\* non-empty; top_comments is the tap comments if there are any, else the
\* document comments, and never longer than max_comments. Whatever the tap
\* gave, extract_comments is called exactly when the tap gave no comments.
C28_MergePolicy ==
    /\ pc # "extract" =>
          hist.extract_comments_calls = (IF cfg.api_comments = <<>> THEN 1 ELSE 0)
    /\ (pc = "returned" /\ cfg.feed # None) =>
          /\ \A k \in DOMAIN cfg.feed \ {"content", "likes", "comments", "collects"} :
                k \in DOMAIN att.post /\ att.post[k] = cfg.feed[k]
          /\ DOMAIN att.post \subseteq
                DOMAIN cfg.feed \cup {"content", "likes", "comments", "collects",
                                      "top_comments", "screenshot", "_data_source"}
          /\ \A k \in {"likes", "comments", "collects"} :
                /\ (k \in DOMAIN att.post) = TapOrDocument(k)[1]
                /\ k \in DOMAIN att.post => att.post[k] = TapOrDocument(k)[2]
          /\ IF ("content" \notin DOMAIN cfg.feed \/ cfg.feed["content"] = "")
                /\ "content" \in DOMAIN att.dom_data /\ att.dom_data["content"] # ""
             THEN att.post["content"] = att.dom_data["content"]
             ELSE /\ ("content" \in DOMAIN att.post) = ("content" \in DOMAIN cfg.feed)
                  /\ "content" \in DOMAIN att.post => att.post["content"] = cfg.feed["content"]
          /\ Len(att.post["top_comments"]) <= cfg.max_comments
          /\ \A i \in DOMAIN att.post["top_comments"] :
                att.post["top_comments"][i] =
                    (IF cfg.api_comments # <<>> THEN cfg.api_comments ELSE cfg.page_comments)[i]
          /\ Len(att.post["top_comments"]) = cfg.max_comments
                \/ Len(att.post["top_comments"]) =
                     Len(IF cfg.api_comments # <<>> THEN cfg.api_comments ELSE cfg.page_comments)

\* a feed with likes "0" and no content, merged with a document that has both,
\* and three document comments cut to two
C28_Witness ==
    /\ pc = "returned"
    /\ cfg.feed # None
    /\ "content" \notin DOMAIN cfg.feed
    /\ "likes" \in DOMAIN cfg.feed /\ cfg.feed["likes"] = "0"
    /\ att.post["likes"] = "9"
    /\ att.post["comments"] = "3"
    /\ "content" \in DOMAIN att.post
    /\ att.post["content"] = "dom text"
    /\ att.post["top_comments"] = <<4, 5>>
    /\ hist.extract_comments_calls = 1

----------------------------------------------------------------------------
(* Claims about the Record an attempt returns (specification Spec) *)

\* The attempt has returned: att.post is its Record.
Returned == pc = "classify"

\* What the claim says of a Record with fallback provenance.
FallbackShape ==
    att.post.data_source = "dom_fallback" =>
        /\ att.post.card_only = (att.post.content = "")
        /\ att.post.reason = (IF att.post.content # "" THEN "none"
                              ELSE IF att.detail_loaded THEN "empty_content"
                              ELSE "modal_timeout")

\* What the claim says of an attempt whose open_detail returned False.
NotOpenedShape ==
    (~att.opened /\ att.exc = "none") =>
        /\ att.post.card_only
        /\ att.post.data_source = "none"
        /\ att.post.reason = "link_not_found"
        /\ att.calls = {}

----------------------------------------------------------------------------
(* Claims about pages without candidates (specification Spec) *)

\* The number of pages without candidates to fetch at the end of the pages
\* extracted so far.
RECURSIVE TrailingEmpty(_)
TrailingEmpty(yields) ==
    IF yields = <<>> \/ yields[Len(yields)] # 0 THEN 0
    ELSE 1 + TrailingEmpty(SubSeq(yields, 1, Len(yields) - 1))

\* The step extracted a listing page.
PageExtracted == Len(hist'.yields) = Len(hist.yields) + 1

\* C30: the reason empty_pages is set exactly by the second of two
\* consecutive extracted pages that yield no candidate to fetch, and the run
\* then leaves the page loop; the first such page, when the page budget has
\* another page, scrolls the listing and goes on to that page without setting
\* a reason; a page with a candidate to fetch sets the counter to 0.
C30_EmptyPages ==
    /\ [](empty_pages = TrailingEmpty(hist.yields) /\ empty_pages <= 2)
    /\ []((empty_pages = 2) = ("empty_pages" \in hist.stops))
    /\ [](empty_pages = 2 => stop_reason = "empty_pages" /\ pc \in {"finally", "done", "raised"})
    /\ [](stop_reason = "empty_pages" => empty_pages = 2)
    /\ [][PageExtracted =>
            LET got == hist'.yields[Len(hist'.yields)]
            IN  /\ got > 0 => empty_pages' = 0 /\ pc' = "cand"
                /\ (got = 0 /\ TrailingEmpty(hist.yields) = 0) =>
                      /\ stop_reason' = stop_reason
                      /\ page_num' = page_num + 1
                      /\ pc' = "page"
                      /\ hist'.scrolls = hist.scrolls +
                            (IF page_num + 1 < (IF cfg.grind THEN 3 * cfg.max_pages
                                                ELSE cfg.max_pages)
                             THEN 1 ELSE 0)
                /\ (got = 0 /\ TrailingEmpty(hist.yields) = 1) =>
                      /\ stop_reason' = "empty_pages"
                      /\ pc' = "finally"
                      /\ hist'.scrolls = hist.scrolls]_vars

\* a run whose first page had candidates, whose second and third had none,
\* scrolled twice and stopped with the reason empty_pages
C30_Witness ==
    /\ pc = "done"
    /\ stop_reason = "empty_pages"
    /\ Len(hist.yields) = 3
    /\ hist.yields[1] > 0 /\ hist.yields[2] = 0 /\ hist.yields[3] = 0
    /\ hist.scrolls = 2
    /\ hist.stops = {"empty_pages"}

----------------------------------------------------------------------------
(* Claims about the entry point (specification SpecFetch) *)

\* C31: a run started through fetch_posts captures a diagnostic bundle after
\* every failed detail attempt unless the verbosity is off, and returns the
\* same Records either way. Both halves need the call of fetch_posts to start
\* a run: it never ends in a TypeError, whatever the verbosity.
C31_FetchPostsStartsRun ==
    cfg.entry = "fetch_posts" => ~(pc = "raised" /\ error = "TypeError")

----------------------------------------------------------------------------
(* Claims about the response handler (specification SpecRoute) *)

\* The step handled a response.
Responded == clock' = clock + 1

\* The identity the claim gives a comments response the adapter finds none for.
UrlIdInOrder(p) ==
    IF p.note_id # "" THEN p.note_id
    ELSE IF p.aweme_id # "" THEN p.aweme_id
    ELSE p.item_id

\* The responses the claim says are dropped.
DropCase(r) ==
    \/ r.route = "none"
    \/ r.status # 200
    \/ r.body # "dict"
    \/ r.parsed = "empty"
    \/ r.adapter_id = "" /\ (r.route = "feed" \/ UrlIdInOrder(r.params) = "")

\* C32: handling a response never lets an exception out; a response without a
\* matching route, with a status other than 200, with a body that is not a
\* JSON object, with an empty payload or without identity leaves the two
\* buffers and the timestamps as they were; a comments response without
\* adapter identity is stored under the first non-empty of the URL parameters
\* note_id, aweme_id, item_id; a feed response is stored only under the
\* identity the adapter gave.
C32_DropsCleanly ==
    [][Responded =>
        /\ error' = "none"
        /\ DropCase(hist'.resp) =>
              UNCHANGED <<feed_data, comment_data, timestamps>>
        /\ (hist'.resp.route = "feed" /\ feed_data' # feed_data) =>
              /\ hist'.resp.adapter_id \in NoteIds
              /\ DictHas(feed_data', hist'.resp.adapter_id)
              /\ timestamps'[hist'.resp.adapter_id] = clock'
              /\ DictKeys(feed_data') \subseteq DictKeys(feed_data) \cup {hist'.resp.adapter_id}
        /\ (hist'.resp.route = "comments" /\ hist'.resp.adapter_id = ""
            /\ ~DropCase(hist'.resp) /\ hist'.resp.url = "ok"
            /\ hist'.resp.parsed = "data") =>
              /\ DictHas(comment_data', UrlIdInOrder(hist'.resp.params))
              /\ DictKeys(comment_data') \subseteq
                    DictKeys(comment_data) \cup {UrlIdInOrder(hist'.resp.params)}]_vars

\* a feed response without adapter identity whose URL names B was dropped
\* while both buffers held data
C32_Witness ==
    /\ "did" \in DOMAIN hist
    /\ hist.did.result = "dropped"
    /\ hist.resp.route = "feed"
    /\ hist.resp.adapter_id = ""
    /\ hist.resp.params.note_id = "B"
    /\ feed_data # <<>>
    /\ comment_data # <<>>

----------------------------------------------------------------------------
(* Claims about the merge of comment responses (specification SpecComments) *)

\* How many times comment c occurs in a list.
Occurrences(list, c) == Cardinality({i \in DOMAIN list : list[i] = c})

\* C33: for every identity, of the comments delivered for it since it was
\* last cleared (or pushed out by another identity's response), the tap's list
\* holds every comment without id, as many times as delivered, and every
\* comment id exactly once.
C33_MergedOnce ==
    \A n \in NoteIds :
        /\ Occurrences(GetComments(n), 0) = Occurrences(hist.delivered[n], 0)
        /\ \A c \in {hist.delivered[n][i] : i \in DOMAIN hist.delivered[n]} \ {0} :
              Occurrences(GetComments(n), c) = 1
        /\ \A c \in {GetComments(n)[i] : i \in DOMAIN GetComments(n)} :
              \E i \in DOMAIN hist.delivered[n] : hist.delivered[n][i] = c

----------------------------------------------------------------------------
(* Claims about identities across a run (specification SpecLoop) *)

\* C34: the output never holds two Records built for the same identity; as
\* every detail attempt that returns appends its Record, no identity is
\* attempted twice either, also when a listing page shows it twice.
C34_OneRecordPerIdentity ==
    \A i, j \in DOMAIN all_posts :
        (i # j /\ all_posts[i].for_card # NoId) =>
            all_posts[i].for_card # all_posts[j].for_card

\* C35: once the run is in CAPTCHA-avoidance mode it stays in it, whatever
\* the step, and no detail attempt (whose first call is open_detail) begins:
\* no attempt returns to be classified and none raises.
C35_ModeIsKept ==
    [][captcha_mode =>
        /\ captcha_mode'
        /\ pc' # "classify"
        /\ hist'.escaped = "attempt" => hist.escaped = "attempt"]_vars

\* the mode was entered on the second page and the run went through the two
\* candidates of the third page without an attempt, up to its end
C35_Witness ==
    /\ captcha_mode
    /\ pc = "done"
    /\ page_num = 3
    /\ Len(all_posts) = 6
    /\ all_posts[1].data_source = "passive_api"
    /\ \A i \in 2..6 : all_posts[i].reason = "captcha"
    /\ CountEvent(events, "captcha") = 5

-----------------------------------------------------------------------------
(* Claims about what a run does once should_stop holds (specification Spec) *)

\* should_stop as health.py states it, over the events recorded so far.
StopHolds == CountEvent(events, "auth_expired") >= 3 \/ ScoreBelow(events, 3)

\* C36: once should_stop is true after a candidate's health events have been
\* recorded, no detail view is opened, no health event is recorded, no listing
\* page is extracted and no adapter call raises in the rest of the run, and
\* should_stop stays true.
C36_NothingAfterStop ==
    [][StopHolds =>
        /\ events' = events
        /\ pc' \notin {"open", "classify"}
        /\ att'.opened = att.opened
        /\ hist'.extracts = hist.extracts
        /\ hist'.escaped = hist.escaped
        /\ Len(all_posts') = Len(all_posts)]_vars

\* a run that should_stop ended with the reason health_stop while the first
\* page still had a candidate to attempt and the page budget had pages left
C36_Witness ==
    /\ pc = "done"
    /\ StopHolds
    /\ stop_reason = "health_stop"
    /\ hist.extracts = 1
    /\ MaxPagesEff > 1
    /\ idx <= Len(fetch_cards)

-----------------------------------------------------------------------------
(* Claims about the item limit in raw counting mode (specification Spec) *)

\* The Records of the output that are card-only with reason seen or skipped.
NotAttempts == {i \in DOMAIN all_posts :
                    all_posts[i].card_only /\ all_posts[i].reason \in {"seen", "skipped"}}

\* C37: in raw counting mode with max_posts > 0, at every point of a run the
\* Records of the output that count as fetch attempts (not card-only with
\* reason seen or skipped) are at most max_posts.
C37_RawCountWithinLimit ==
    (~cfg.grind /\ cfg.max_posts > 0) =>
        Len(all_posts) - Cardinality(NotAttempts) <= cfg.max_posts

\* a raw run with a limit of one item that ended on the limit with one fetch
\* attempt and one seen Record in its output
C37_Witness ==
    /\ pc = "done"
    /\ ~cfg.grind /\ cfg.max_posts = 1
    /\ stop_reason = "max_posts"
    /\ hist.limit_hit
    /\ Len(all_posts) = 2
    /\ Cardinality(NotAttempts) = 1

-----------------------------------------------------------------------------
(* Claims about the tap's buffers and timestamps (specification SpecTap) *)

\* The step stored a response for n (the history of captures is stamped with
\* the time of the response).
StoredFor(n) == clock' = clock + 1 /\ n \in DOMAIN cap_last' /\ cap_last'[n] = clock'

\* list is the beginning of longer.
IsPrefix(list, longer) ==
    Len(list) <= Len(longer) /\ SubSeq(longer, 1, Len(list)) = list

\* C38: a response for an identity that is already present in a buffer removes
\* no entry from that buffer, also when the buffer is full: a feed response
\* only replaces that identity's feed, a comment response only extends that
\* identity's comment list.
C38_PresentKeepsEntries ==
    [][\A n \in NoteIds : StoredFor(n) =>
        /\ (n \in DictKeys(feed_data) /\ feed_data' # feed_data) =>
              \A k \in DictKeys(feed_data) \ {n} :
                  DictGet(feed_data', k, None) = DictGet(feed_data, k, None)
        /\ (n \in DictKeys(comment_data) /\ comment_data' # comment_data) =>
              /\ \A k \in DictKeys(comment_data) \ {n} :
                    DictGet(comment_data', k, <<>>) = DictGet(comment_data, k, <<>>)
              /\ IsPrefix(DictGet(comment_data, n, <<>>), DictGet(comment_data', n, <<>>))]_vars

\* C39: after any sequence of feed responses, comment responses, evictions
\* and clear() calls, an identity has a capture timestamp exactly when it is
\* present in the feed buffer or the comments buffer.
C39_TimestampIffBuffered ==
    \A n \in NoteIds :
        (n \in DOMAIN timestamps) <=> (DictHas(feed_data, n) \/ DictHas(comment_data, n))

-----------------------------------------------------------------------------
(* Claims about the timed_out flag of wait_for (specification SpecWait) *)

\* C40 as stated: the result has timed_out = False exactly when the returned
\* data satisfies every requested condition, so a result with timed_out = True
\* misses a requested item.
C40_TimedOutIffIncomplete ==
    pc = "returned" => (att.timed_out <=> ~ResultComplete)

\* C40, amended: a result with timed_out = False satisfies every requested
\* condition and was returned by a poll made before the deadline; a result
\* with timed_out = True comes from the final check, and satisfies every
\* requested condition only when a response for the identity arrived during
\* the last yield or when the deadline had passed at the first test with the
\* conditions already met.
C40_TimedOutMeansFinalCheck ==
    /\ pc = "returned" /\ ~att.timed_out => ResultComplete /\ clock < att.deadline
    /\ pc = "returned" /\ att.timed_out /\ ResultComplete =>
            hist.late \/ (hist.yields = 0 /\ hist.held_at_call)
    /\ pc = "returned" /\ att.timed_out /\ hist.yields = 0 => clock >= att.deadline

\* feed and comments were requested, the deadline passed during a yield that
\* delivered the missing one, and the final check returned both with
\* timed_out = True
C40_Witness ==
    /\ pc = "returned"
    /\ att.timed_out
    /\ att.need_feed /\ att.need_comments
    /\ att.feed # None /\ att.comments # <<>>
    /\ hist.late
    /\ clock >= att.deadline

====
